---- MODULE Spec2Model ----
(***************************************************************************)
(* Object-store index synchronisation engine of s3webui.                   *)
(*                                                                         *)
(* The model follows src/Dockerfile (the db/indexer module: schema, key    *)
(* decomposition, rebuildIndex, refreshIndex, scan state), the lister      *)
(* walkAllObjects of src/src/server/aws.ts and the IndexingPanel of        *)
(* src/unnamed/part_003 that triggers the runs.                            *)
(*                                                                         *)
(* Strings are sequences of one-character strings, so that lastIndexOf,    *)
(* split, slice and toLowerCase are computed as the code computes them.    *)
(* SQL NULL is the value NULL; a JavaScript property that is undefined is  *)
(* a field that is missing from the record's DOMAIN.                       *)
(***************************************************************************)
EXTENDS Integers, Sequences, FiniteSets, TLC

(***************************************************************************)
(* Bounds of the model.                                                    *)
(***************************************************************************)
\* objects per listing page (ListObjectsV2 MaxKeys, 1000 in the code)
PageSize == 2
\* the clock stops here; a run may only start before that
MaxClock == 3
\* number of changes the bucket undergoes after the initial state
MaxRemoteChanges == 1
\* number of objects in the bucket in the initial state
MaxObjects == 3
\* the same, where runs may overlap
MaxOverlapObjects == 2
\* the same, where the query service is exercised
MaxQueryObjects == 2
\* the clock stops here where the query service is exercised
MaxQueryClock == 2
\* length of the keys the key decomposition is applied to
MaxKeyLen == 4
\* number of rows of the users table
MaxUsers == 2
\* number of objects in the bucket in the initial state, where statements on
\* the database may throw
MaxFaultObjects == 2
\* the clock stops here where statements on the database may throw
MaxFaultClock == 2
\* number of entries the listing has where termination is checked
MaxLiveObjects == 3
\* the clock stops here where termination is checked
MaxLiveClock == 2

(***************************************************************************)
(* Strings.                                                                *)
(***************************************************************************)
NULL == <<"NULL">>
EmptyStr == <<>>

\* String.prototype.lastIndexOf for a one-character needle, 0-based, -1 if absent
RECURSIVE lastIndexOfFrom(_, _, _)
lastIndexOfFrom(s, c, i) ==
  IF i = 0 THEN -1
  ELSE IF s[i] = c THEN i - 1
  ELSE lastIndexOfFrom(s, c, i - 1)

lastIndexOf(s, c) == lastIndexOfFrom(s, c, Len(s))

\* String.prototype.slice(from) with 0-based from
slice(s, from) == SubSeq(s, from + 1, Len(s))

LowerOf(c) ==
  CASE c = "A" -> "a"
    [] c = "B" -> "b"
    [] c = "C" -> "c"
    [] c = "S" -> "s"
    [] c = "V" -> "v"
    [] c = "X" -> "x"
    [] OTHER -> c

toLowerCase(s) == [i \in 1..Len(s) |-> LowerOf(s[i])]

\* String.prototype.split("/"): the segments between separators, empty ones kept
RECURSIVE splitFrom(_, _, _)
splitFrom(s, i, cur) ==
  IF i > Len(s) THEN <<cur>>
  ELSE IF s[i] = "/" THEN <<cur>> \o splitFrom(s, i + 1, <<>>)
  ELSE splitFrom(s, i + 1, Append(cur, s[i]))

split(s) == splitFrom(s, 1, <<>>)

\* Array.prototype.filter(Boolean) on strings: drops the empty segments
filterBoolean(parts) == SelectSeq(parts, LAMBDA p : p # EmptyStr)

endsWith(s, c) == Len(s) > 0 /\ s[Len(s)] = c

(***************************************************************************)
(* Key decomposition.                                                      *)
(***************************************************************************)
\* as extractExtension, but the last dot counts wherever it lies
extractExtensionAnyDot(key) ==
  LET lastDot == lastIndexOf(key, ".")
  IN IF lastDot = -1 THEN EmptyStr ELSE toLowerCase(slice(key, lastDot + 1))

extractExtension(key) ==
  LET lastSlash == lastIndexOf(key, "/")
      lastDot == lastIndexOf(key, ".")
  IN IF lastDot = -1 \/ lastDot < lastSlash THEN EmptyStr
     ELSE toLowerCase(slice(key, lastDot + 1))

basename(key) ==
  LET parts == filterBoolean(split(key))
  IN IF Len(parts) > 0 /\ parts[Len(parts)] # EmptyStr THEN parts[Len(parts)] ELSE key

\* acc after the first i parts have been appended, each followed by "/"
RECURSIVE accUpTo(_, _)
accUpTo(parts, i) ==
  IF i = 0 THEN EmptyStr ELSE accUpTo(parts, i - 1) \o parts[i] \o <<"/">>

\* as folderPrefixesForKey, but the folder keys lack the closing separator
folderPrefixesForKeyNoSlash(key) ==
  LET parts == filterBoolean(split(key))
  IN [i \in 1..(IF Len(parts) > 0 THEN Len(parts) - 1 ELSE 0) |->
        [key |-> SubSeq(accUpTo(parts, i), 1, Len(accUpTo(parts, i)) - 1), name |-> parts[i]]]

\* as folderPrefixesForKey, but the last segment counts as a folder too
folderPrefixesForKeyWithLast(key) ==
  LET parts == filterBoolean(split(key))
  IN [i \in 1..Len(parts) |-> [key |-> accUpTo(parts, i), name |-> parts[i]]]

folderPrefixesForKey(key) ==
  LET parts == filterBoolean(split(key))
  IN [i \in 1..(IF Len(parts) > 0 THEN Len(parts) - 1 ELSE 0) |->
        [key |-> accUpTo(parts, i), name |-> parts[i]]]

(***************************************************************************)
(* The bucket.  Keys is the universe of object keys: two root-level        *)
(* objects, a zero-byte folder marker as createFolder                      *)
(* writes it, an object two levels below the marker's folder, and an       *)
(* object with an empty path segment that shares the folder d/.            *)
(***************************************************************************)
Ka == <<"a">>
Kb == <<"b">>
Kd == <<"d", "/">>
Kdey == <<"d", "/", "e", "/", "y">>
Kdz == <<"d", "/", "/", "z">>

Keys == {Ka, Kb, Kd, Kdey, Kdz}

\* the versions an object of the bucket can be in; "none" is no object
Versions == {"v1", "bare"}

VersionsOf(k) == IF k = Ka THEN Versions ELSE {"v1"}

\* the entry of ListObjectsV2's Contents for key k in version v; a field
\* the service leaves out is missing from the record
Item(k, v) ==
  CASE v = "v1" -> [Key |-> k, Size |-> (IF endsWith(k, "/") THEN 0 ELSE 1),
                    LastModified |-> "t1", ETag |-> <<"\"", "e", "1", "\"">>]
    [] v = "bare" -> [Key |-> k]

\* UTF-8 code order of the characters that occur in Keys
CharRank(c) ==
  CASE c = "." -> 46
    [] c = "/" -> 47
    [] c = "C" -> 67
    [] c = "a" -> 97
    [] c = "b" -> 98
    [] c = "d" -> 100
    [] c = "e" -> 101
    [] c = "x" -> 120
    [] c = "y" -> 121
    [] c = "z" -> 122
    [] OTHER -> 0

RECURSIVE KeyLessFrom(_, _, _)
KeyLessFrom(s, t, i) ==
  IF i > Len(s) THEN i <= Len(t)
  ELSE IF i > Len(t) THEN FALSE
  ELSE IF s[i] = t[i] THEN KeyLessFrom(s, t, i + 1)
  ELSE CharRank(s[i]) < CharRank(t[i])

KeyLess(s, t) == KeyLessFrom(s, t, 1)

\* the elements of a set of keys in listing order
RECURSIVE SortKeys(_)
SortKeys(S) ==
  IF S = {} THEN <<>>
  ELSE LET m == CHOOSE k \in S : \A o \in S : o = k \/ KeyLess(k, o)
       IN <<m>> \o SortKeys(S \ {m})

(***************************************************************************)
(* JavaScript conversions used on the way from the listing to the table.   *)
(***************************************************************************)
\* Date.prototype.toISOString: the instant followed by the zone marker Z
toISOString(d) == <<d, "Z">>

\* x || null for a string x
OrNull(x) == IF x = EmptyStr THEN NULL ELSE x

\* ETag?.replace(/"/g, "")
stripQuotes(s) == SelectSeq(s, LAMBDA c : c # "\"")

Has(f, k) == k \in DOMAIN f

(***************************************************************************)
(* State.                                                                  *)
(***************************************************************************)
Runs == {"r1", "r2"}

VARIABLES
  remote,        \* the bucket: key -> version, "none" when there is no object
  changes,       \* number of changes made to the bucket so far
  object_index,  \* table object_index: key -> row
  index_state,   \* table index_state: id -> row, at most the row with id 1
  now,           \* the wall clock
  running,       \* IndexingPanel's running state: "none", "full" or "delta"
  run,           \* the invocations of rebuildIndex / refreshIndex in flight
  hist,          \* per invocation: what it saw and did (history, not program state)
  prev,          \* how the last invocation ended and whether the bucket has been
                 \* left alone since that invocation started (history)
  call,          \* the last call of the query service or request to the API
                 \* and what it returned (history)
  users          \* table users, in the order of created_at

vars == <<remote, changes, object_index, index_state, now, running, run, hist, prev, call, users>>

\* no call of the query service has just returned
NoCall == [op |-> "none"]

IdleRun ==
  [pc |-> "idle", kind |-> "none", contents |-> <<>>, token |-> NULL,
   nextToken |-> NULL, seenKeys |-> {}, seenFolders |-> {},
   added |-> 0, updated |-> 0, indexed |-> 0, result |-> <<>>]

IdleHist ==
  [pre |-> <<>>, preState |-> <<>>,
   remote0 |-> <<>>, after |-> <<>>, alone |-> TRUE, quiet |-> TRUE,
   writes |-> <<>>, lookups |-> <<>>, deleted |-> {}, processed |-> <<>>,
   folderWrites |-> <<>>, folderLookups |-> <<>>, listed |-> <<>>]

Active(r) == run[r].pc \in {"fetch", "page", "walked"}

nowIso == toISOString(now)

(***************************************************************************)
(* Index store.                                                            *)
(***************************************************************************)
\* upsertObject.run(key, name, extension, size, last_modified, etag, updated_at, type)
upsertObject(idx, key, name, extension, size, last_modified, etag, updated_at, type) ==
  [k \in DOMAIN idx \cup {key} |->
     IF k = key
     THEN [name |-> name, extension |-> extension, size |-> size,
           last_modified |-> last_modified, etag |-> etag,
           updated_at |-> updated_at, type |-> type]
     ELSE idx[k]]

\* deleteObjectStmt.run(key)
deleteObjectStmt(idx, key) == [k \in DOMAIN idx \ {key} |-> idx[k]]

\* SELECT COUNT(*) FROM object_index WHERE type = t
\* as countType, but without the WHERE clause
countTypeAny(idx, t) == Cardinality(DOMAIN idx)

countType(idx, t) == Cardinality({k \in DOMAIN idx : idx[k].type = t})

getState(st) ==
  IF Has(st, 1) THEN st[1] ELSE [last_full_scan |-> NULL, last_delta_scan |-> NULL]

\* as updateState, but a field the update does not name is reset
updateStateNoMerge(st, updates) ==
  [id \in {1} |->
     [f \in {"last_full_scan", "last_delta_scan"} |->
        IF Has(updates, f) THEN OrNull(updates[f]) ELSE NULL]]

\* updates is a partial record: only the fields it names are in its DOMAIN
updateState(st, updates) ==
  LET current == getState(st)
      next == [f \in {"last_full_scan", "last_delta_scan"} |->
                 IF Has(updates, f) THEN updates[f] ELSE current[f]]
      lastFull == OrNull(next.last_full_scan)
      lastDelta == OrNull(next.last_delta_scan)
  IN [id \in {1} |-> [last_full_scan |-> lastFull, last_delta_scan |-> lastDelta]]

\* as getIndexStatus, but the count is over every row
getIndexStatusAllRows ==
  [objectCount |-> Cardinality(DOMAIN object_index),
   lastFullScan |-> OrNull(getState(index_state).last_full_scan),
   lastDeltaScan |-> OrNull(getState(index_state).last_delta_scan)]

getIndexStatus ==
  [objectCount |-> countType(object_index, "file"),
   lastFullScan |-> OrNull(getState(index_state).last_full_scan),
   lastDeltaScan |-> OrNull(getState(index_state).last_delta_scan)]

(***************************************************************************)
(* Remote lister.                                                          *)
(***************************************************************************)
\* prefix "" is normalised to ""
normalized == EmptyStr

\* The response of ListObjectsV2 to a request carrying the continuation
\* token: the next PageSize objects in key order after the token, and a
\* further token when the listing is truncated.
ListObjectsV2(rem, token) ==
  LET present == {k \in DOMAIN rem : rem[k] # "none" /\ (token = NULL \/ KeyLess(token, k))}
      sorted == SortKeys(present)
      n == IF Len(sorted) > PageSize THEN PageSize ELSE Len(sorted)
  IN [Contents |-> [i \in 1..n |-> Item(sorted[i], rem[sorted[i]])],
      NextContinuationToken |-> IF Len(sorted) > PageSize THEN sorted[n] ELSE NULL]

\* as S3ObjectDetail, but an entry without LastModified is given the epoch
S3ObjectDetailEpoch(item) ==
  LET hasTag == Has(item, "ETag") /\ stripQuotes(item.ETag) # EmptyStr
      dom == {"key", "size", "lastModified"} \cup (IF hasTag THEN {"etag"} ELSE {})
  IN [f \in dom |->
        CASE f = "key" -> item.Key
          [] f = "size" -> (IF Has(item, "Size") THEN item.Size ELSE 0)
          [] f = "lastModified" ->
               (IF Has(item, "LastModified") THEN toISOString(item.LastModified)
                ELSE toISOString("t0"))
          [] f = "etag" -> stripQuotes(item.ETag)]

\* the object handed to the callback for an entry of Contents
S3ObjectDetail(item) ==
  LET hasLM == Has(item, "LastModified")
      hasTag == Has(item, "ETag") /\ stripQuotes(item.ETag) # EmptyStr
      dom == {"key", "size"} \cup (IF hasLM THEN {"lastModified"} ELSE {})
                            \cup (IF hasTag THEN {"etag"} ELSE {})
  IN [f \in dom |->
        CASE f = "key" -> item.Key
          [] f = "size" -> (IF Has(item, "Size") THEN item.Size ELSE 0)
          [] f = "lastModified" -> toISOString(item.LastModified)
          [] f = "etag" -> stripQuotes(item.ETag)]

\* the entries of a page that reach the callback
walkContents(response) ==
  SelectSeq(response.Contents, LAMBDA item : item.Key # EmptyStr /\ item.Key # normalized)

(***************************************************************************)
(* The per-object callbacks.  A callback contains no await, so it runs     *)
(* from its first to its last statement without interleaving.  The work    *)
(* state w holds the table, the closure variables of the invocation and    *)
(* the record of the statements executed on the table.                     *)
(***************************************************************************)
objLastModified(obj) == IF Has(obj, "lastModified") THEN OrNull(obj.lastModified) ELSE NULL
objEtag(obj) == IF Has(obj, "etag") THEN OrNull(obj.etag) ELSE NULL

\* as rebuildFolders, but only the immediate parent folder is written
rebuildParentOnly(w, folders, i, t) ==
  IF folders = <<>> THEN w
  ELSE LET folder == folders[Len(folders)]
       IN IF folder.key \in w.seenFolders THEN w
          ELSE [w EXCEPT
                  !.idx = upsertObject(w.idx, folder.key, folder.name, NULL, 0, NULL, NULL, t, "folder"),
                  !.writes = Append(w.writes, folder.key),
                  !.folderWrites = Append(w.folderWrites, folder.key),
                  !.seenFolders = w.seenFolders \cup {folder.key},
                  !.seenKeys = w.seenKeys \cup {folder.key}]

\* as rebuildFolders, but a folder is upserted whether seen or not
RECURSIVE rebuildFoldersNoDedup(_, _, _, _)
rebuildFoldersNoDedup(w, folders, i, t) ==
  IF i > Len(folders) THEN w
  ELSE LET folder == folders[i]
       IN rebuildFoldersNoDedup(
            [w EXCEPT
               !.idx = upsertObject(w.idx, folder.key, folder.name, NULL, 0, NULL, NULL, t, "folder"),
               !.writes = Append(w.writes, folder.key),
               !.folderWrites = Append(w.folderWrites, folder.key),
               !.seenFolders = w.seenFolders \cup {folder.key},
               !.seenKeys = w.seenKeys \cup {folder.key}],
            folders, i + 1, t)

\* rebuildIndex: folders.forEach, from folder i on
RECURSIVE rebuildFolders(_, _, _, _)
rebuildFolders(w, folders, i, t) ==
  IF i > Len(folders) THEN w
  ELSE LET folder == folders[i]
       IN IF folder.key \in w.seenFolders
          THEN rebuildFolders(w, folders, i + 1, t)
          ELSE rebuildFolders(
                 [w EXCEPT
                    !.idx = upsertObject(w.idx, folder.key, folder.name, NULL, 0, NULL, NULL, t, "folder"),
                    !.writes = Append(w.writes, folder.key),
                    !.folderWrites = Append(w.folderWrites, folder.key),
                    !.seenFolders = w.seenFolders \cup {folder.key},
                    !.seenKeys = w.seenKeys \cup {folder.key}],
                 folders, i + 1, t)

rebuildOnObject(w, obj, t) ==
  LET ext == extractExtension(obj.key)
      folders == folderPrefixesForKey(obj.key)
      w1 == rebuildFolders(w, folders, 1, t)
  IN [w1 EXCEPT
        !.idx = upsertObject(w1.idx, obj.key, basename(obj.key), OrNull(ext), obj.size,
                             objLastModified(obj), objEtag(obj), t, "file"),
        !.writes = Append(w1.writes, obj.key),
        !.seenKeys = w1.seenKeys \cup {obj.key},
        !.indexed = w1.indexed + 1]

\* as needsFolder, but only a missing row is written
needsFolderIfMissing(idx, key) == ~Has(idx, key)

needsFolder(idx, key) ==
  \/ ~Has(idx, key)
  \/ idx[key].type # "folder"
  \/ idx[key].size # 0
  \/ idx[key].last_modified # NULL

\* refreshIndex: folders.forEach, from folder i on
RECURSIVE refreshFolders(_, _, _, _)
refreshFolders(w, folders, i, t) ==
  IF i > Len(folders) THEN w
  ELSE LET folder == folders[i]
           existingFolder == Has(w.idx, folder.key)
           w1 == [w EXCEPT !.lookups = Append(w.lookups, folder.key),
                           !.folderLookups = Append(w.folderLookups, folder.key)]
           w2 == IF needsFolder(w.idx, folder.key)
                 THEN [w1 EXCEPT
                         !.idx = upsertObject(w.idx, folder.key, folder.name, NULL, 0, NULL, NULL, t, "folder"),
                         !.writes = Append(w.writes, folder.key),
                         !.folderWrites = Append(w.folderWrites, folder.key),
                         !.added = IF existingFolder THEN w.added ELSE w.added + 1,
                         !.updated = IF existingFolder THEN w.updated + 1 ELSE w.updated]
                 ELSE w1
       IN IF folder.key \in w.seenFolders
          THEN refreshFolders(w, folders, i + 1, t)
          ELSE refreshFolders(
                 [w2 EXCEPT
                    !.seenFolders = w.seenFolders \cup {folder.key},
                    !.seenKeys = w.seenKeys \cup {folder.key}],
                 folders, i + 1, t)

\* as needsUpdate, but a row that exists is never compared
needsUpdateIfMissing(idx, obj) == ~Has(idx, obj.key)

needsUpdate(idx, obj) ==
  \/ ~Has(idx, obj.key)
  \/ idx[obj.key].type # "file"
  \/ idx[obj.key].size # obj.size
  \/ idx[obj.key].last_modified # objLastModified(obj)
  \/ idx[obj.key].etag # objEtag(obj)

\* as refreshOnObject, but the rows that sort before the object and have not
\* been seen are deleted at once instead of after the walk
refreshOnObjectSweepsEarly(w, obj, t) ==
  LET ext == extractExtension(obj.key)
      folders == folderPrefixesForKey(obj.key)
      w1 == refreshFolders(w, folders, 1, t)
      existing == Has(w1.idx, obj.key)
      upd == needsUpdate(w1.idx, obj)
      w2 == [w1 EXCEPT
               !.lookups = Append(w1.lookups, obj.key),
               !.added = IF ~existing THEN w1.added + 1 ELSE w1.added,
               !.updated = IF existing /\ upd THEN w1.updated + 1 ELSE w1.updated]
      w3 == IF upd
            THEN [w2 EXCEPT
                    !.idx = upsertObject(w1.idx, obj.key, basename(obj.key), OrNull(ext), obj.size,
                                         objLastModified(obj), objEtag(obj), t, "file"),
                    !.writes = Append(w1.writes, obj.key)]
            ELSE w2
      seen == w1.seenKeys \cup {obj.key}
  IN [w3 EXCEPT
        !.seenKeys = seen,
        !.idx = [k \in {j \in DOMAIN w3.idx : j \in seen \/ ~KeyLess(j, obj.key)} |-> w3.idx[k]]]

refreshOnObject(w, obj, t) ==
  LET ext == extractExtension(obj.key)
      folders == folderPrefixesForKey(obj.key)
      w1 == refreshFolders(w, folders, 1, t)
      existing == Has(w1.idx, obj.key)
      upd == needsUpdate(w1.idx, obj)
      w2 == [w1 EXCEPT
               !.lookups = Append(w1.lookups, obj.key),
               !.added = IF ~existing THEN w1.added + 1 ELSE w1.added,
               !.updated = IF existing /\ upd THEN w1.updated + 1 ELSE w1.updated]
      w3 == IF upd
            THEN [w2 EXCEPT
                    !.idx = upsertObject(w1.idx, obj.key, basename(obj.key), OrNull(ext), obj.size,
                                         objLastModified(obj), objEtag(obj), t, "file"),
                    !.writes = Append(w1.writes, obj.key)]
            ELSE w2
  IN [w3 EXCEPT !.seenKeys = w1.seenKeys \cup {obj.key}]

(***************************************************************************)
(* Actions.                                                                *)
(***************************************************************************)
EmptyTable == <<>>

Work(r) ==
  [idx |-> object_index, seenKeys |-> run[r].seenKeys, seenFolders |-> run[r].seenFolders,
   added |-> run[r].added, updated |-> run[r].updated, indexed |-> run[r].indexed,
   writes |-> hist[r].writes, lookups |-> hist[r].lookups,
   folderWrites |-> hist[r].folderWrites, folderLookups |-> hist[r].folderLookups]

\* The outcome of an invocation (its summary or its error) is what the caller
\* receives: it is kept for the one state in which the invocation ends.
Ended(r) == run[r].pc \in {"done", "failed"}
SettledRun == [q \in Runs |-> IF Ended(q) THEN IdleRun ELSE run[q]]
SettledHist == [q \in Runs |-> IF Ended(q) THEN IdleHist ELSE hist[q]]

\* the invocation slots are interchangeable: the lowest free one is taken
FreeSlot(r) == ~Active(r) /\ (r = "r1" \/ Active("r1"))

\* history of invocation r at its start; the runs in flight are no longer alone
StartHist(r, del) ==
  [q \in Runs |->
     IF q = r
     THEN [IdleHist EXCEPT
             !.pre = object_index, !.preState = index_state, !.remote0 = remote,
             !.after = prev,
             !.alone = \A o \in Runs \ {r} : ~Active(o),
             !.deleted = del]
     ELSE IF Active(q) THEN [hist[q] EXCEPT !.alone = FALSE] ELSE IdleHist]

\* as rebuildIndexStart, but the clear step empties the scan state too
rebuildIndexStartClearsState(r) ==
  /\ object_index' = EmptyTable
  /\ index_state' = <<>>
  /\ run' = [SettledRun EXCEPT ![r] = [IdleRun EXCEPT !.pc = "fetch", !.kind = "full"]]
  /\ hist' = StartHist(r, DOMAIN object_index)
  /\ now' = now + 1
  /\ UNCHANGED <<remote, changes, prev>>
  /\ call' = NoCall
  /\ UNCHANGED users

\* rebuildIndex up to its first await: the table is emptied and the first
\* page is requested
rebuildIndexStart(r) ==
  /\ object_index' = EmptyTable
  /\ run' = [SettledRun EXCEPT ![r] = [IdleRun EXCEPT !.pc = "fetch", !.kind = "full"]]
  /\ hist' = StartHist(r, DOMAIN object_index)
  /\ now' = now + 1
  /\ UNCHANGED <<remote, changes, index_state, prev>>
  /\ call' = NoCall
  /\ UNCHANGED users

\* refreshIndex up to its first await: the first page is requested
refreshIndexStart(r) ==
  /\ run' = [SettledRun EXCEPT ![r] = [IdleRun EXCEPT !.pc = "fetch", !.kind = "delta"]]
  /\ hist' = StartHist(r, {})
  /\ now' = now + 1
  /\ UNCHANGED <<remote, changes, object_index, index_state, prev>>
  /\ call' = NoCall
  /\ UNCHANGED users

\* IndexingPanel: the Full rebuild button is disabled only while running = "full"
runFull(r) ==
  /\ running # "full"
  /\ FreeSlot(r)
  /\ now < MaxClock
  /\ running' = "full"
  /\ rebuildIndexStart(r)

\* IndexingPanel: the Delta sync button is disabled only while running = "delta"
runDelta(r) ==
  /\ running # "delta"
  /\ FreeSlot(r)
  /\ now < MaxClock
  /\ running' = "delta"
  /\ refreshIndexStart(r)

\* as afterPage, but the loop ends after the first page
afterPageOnce(rec, next) ==
  [rec EXCEPT !.contents = <<>>, !.token = NULL, !.nextToken = NULL, !.pc = "walked"]

\* walkAllObjects after the last entry of a page: the loop goes on while the
\* response carried a continuation token
afterPage(rec, next) ==
  [rec EXCEPT !.contents = <<>>, !.token = next, !.nextToken = NULL,
              !.pc = IF next # NULL THEN "fetch" ELSE "walked"]

\* client.send resolves with a page
listResponse(r) ==
  /\ run[r].pc = "fetch"
  /\ LET response == ListObjectsV2(remote, run[r].token)
         contents == walkContents(response)
     IN /\ run' = [SettledRun EXCEPT ![r] =
                     IF contents = <<>>
                     THEN afterPage(run[r], response.NextContinuationToken)
                     ELSE [run[r] EXCEPT !.pc = "page", !.contents = contents,
                                         !.nextToken = response.NextContinuationToken]]
        /\ hist' = [SettledHist EXCEPT ![r].listed = hist[r].listed \o response.Contents]
  /\ UNCHANGED <<remote, changes, object_index, index_state, now, running, prev>>
  /\ call' = NoCall
  /\ UNCHANGED users

\* as sweep, but only file rows are deleted
sweepFilesOnly(idx, seenKeys) ==
  [k \in {j \in DOMAIN idx : j \in seenKeys \/ idx[j].type = "folder"} |-> idx[k]]

\* the deletion sweep of refreshIndex
sweep(idx, seenKeys) == [k \in DOMAIN idx \cap seenKeys |-> idx[k]]

\* as listError, but the sweep runs on the way out (as from a finally block)
listErrorSweeps(r) ==
  /\ run[r].pc = "fetch"
  /\ run' = [SettledRun EXCEPT ![r].pc = "failed", ![r].result = [error |-> "list"]]
  /\ hist' = SettledHist
  /\ running' = "none"
  /\ prev' = [kind |-> "failed", clean |-> FALSE]
  /\ object_index' = IF run[r].kind = "delta" THEN sweep(object_index, run[r].seenKeys)
                     ELSE object_index
  /\ UNCHANGED <<remote, changes, index_state, now>>
  /\ call' = NoCall
  /\ UNCHANGED users

\* client.send rejects: the error leaves walkAllObjects and the run
listError(r) ==
  /\ run[r].pc = "fetch"
  /\ run' = [SettledRun EXCEPT ![r].pc = "failed", ![r].result = [error |-> "list"]]
  /\ hist' = SettledHist
  /\ running' = "none"
  /\ prev' = [kind |-> "failed", clean |-> FALSE]
  /\ UNCHANGED <<remote, changes, object_index, index_state, now>>
  /\ call' = NoCall
  /\ UNCHANGED users

\* the callback of invocation r for the next entry of the page, run to its end
callbackOf(r) ==
  LET obj == S3ObjectDetail(Head(run[r].contents))
  IN IF run[r].kind = "full"
     THEN rebuildOnObject(Work(r), obj, nowIso)
     ELSE refreshOnObject(Work(r), obj, nowIso)

\* the keys written by the statements the callback executes, in their order
callbackWrites(r) == SubSeq(callbackOf(r).writes, Len(hist[r].writes) + 1, Len(callbackOf(r).writes))

\* the table after the first j of the statements ks that lead to table idx
afterWrites(old, idx, ks, j) ==
  LET done == {ks[i] : i \in 1..j}
  IN [k \in DOMAIN old \cup done |-> IF k \in done THEN idx[k] ELSE old[k]]

\* the run ends with the error thrown by a statement on the database; the
\* upserts of a callback's folders come before the upsert of its object
throws(r, idx, writes, gone) ==
  /\ object_index' = idx
  /\ run' = [SettledRun EXCEPT ![r].pc = "failed", ![r].result = [error |-> "write"]]
  /\ hist' = [SettledHist EXCEPT
               ![r].writes = writes,
               ![r].folderWrites =
                  IF run[r].pc = "page"
                  THEN SubSeq(callbackOf(r).folderWrites, 1,
                              Len(hist[r].folderWrites) + Len(writes) - Len(hist[r].writes))
                  ELSE hist[r].folderWrites,
               ![r].deleted = hist[r].deleted \cup gone]
  /\ running' = "none"
  /\ prev' = [kind |-> "failed", clean |-> FALSE]
  /\ call' = NoCall
  /\ UNCHANGED <<remote, changes, now, users>>

\* as writeError, but the time of the failure is recorded as the last delta
\* scan on the way out
writeErrorStamps(r) ==
  /\ run[r].pc = "page"
  /\ callbackWrites(r) # <<>>
  /\ throws(r, object_index, hist[r].writes, {})
  /\ index_state' = updateState(index_state, [last_delta_scan |-> nowIso])

\* A statement that writes to the database throws (the disk is full, the
\* file is locked): the error leaves the callback, walkAllObjects and the
\* run.  There is no transaction: the statements executed before it have
\* taken effect.  In the callback the statement is one of its upserts; after
\* the walk it is one of the deletions of the sweep or the upsert of the
\* scan state.
writeError(r) ==
  \/ /\ run[r].pc = "page"
     /\ \E j \in 0..(Len(callbackWrites(r)) - 1) :
          throws(r, afterWrites(object_index, callbackOf(r).idx, callbackWrites(r), j),
                 hist[r].writes \o SubSeq(callbackWrites(r), 1, j), {})
     /\ UNCHANGED index_state
  \/ /\ run[r].pc = "walked"
     /\ \E gone \in SUBSET (IF run[r].kind = "delta" THEN DOMAIN object_index \ run[r].seenKeys ELSE {}) :
          throws(r, [k \in DOMAIN object_index \ gone |-> object_index[k]], hist[r].writes, gone)
     /\ UNCHANGED index_state

\* as onObject, but the entries of a page are taken from its end
onObjectFromEnd(r) ==
  /\ run[r].pc = "page"
  /\ LET n == Len(run[r].contents)
         item == run[r].contents[n]
         obj == S3ObjectDetail(item)
         w == IF run[r].kind = "full"
              THEN rebuildOnObject(Work(r), obj, nowIso)
              ELSE refreshOnObject(Work(r), obj, nowIso)
         rec == [run[r] EXCEPT
                   !.contents = SubSeq(run[r].contents, 1, n - 1),
                   !.seenKeys = w.seenKeys, !.seenFolders = w.seenFolders,
                   !.added = w.added, !.updated = w.updated, !.indexed = w.indexed]
     IN /\ object_index' = w.idx
        /\ run' = [SettledRun EXCEPT ![r] =
                     IF rec.contents = <<>> THEN afterPage(rec, rec.nextToken) ELSE rec]
        /\ hist' = [SettledHist EXCEPT ![r].writes = w.writes, ![r].lookups = w.lookups,
                                ![r].folderWrites = w.folderWrites,
                                ![r].folderLookups = w.folderLookups,
                                ![r].processed = Append(hist[r].processed, item)]
  /\ UNCHANGED <<remote, changes, index_state, now, running, prev>>
  /\ call' = NoCall
  /\ UNCHANGED users

\* await onObject(...) for the next entry of the page
onObject(r) ==
  /\ run[r].pc = "page"
  /\ LET item == Head(run[r].contents)
         obj == S3ObjectDetail(item)
         w == IF run[r].kind = "full"
              THEN rebuildOnObject(Work(r), obj, nowIso)
              ELSE refreshOnObject(Work(r), obj, nowIso)
         rec == [run[r] EXCEPT
                   !.contents = Tail(run[r].contents),
                   !.seenKeys = w.seenKeys, !.seenFolders = w.seenFolders,
                   !.added = w.added, !.updated = w.updated, !.indexed = w.indexed]
     IN /\ object_index' = w.idx
        /\ run' = [SettledRun EXCEPT ![r] =
                     IF rec.contents = <<>> THEN afterPage(rec, rec.nextToken) ELSE rec]
        /\ hist' = [SettledHist EXCEPT ![r].writes = w.writes, ![r].lookups = w.lookups,
                                ![r].folderWrites = w.folderWrites,
                                ![r].folderLookups = w.folderLookups,
                                ![r].processed = Append(hist[r].processed, item)]
  /\ UNCHANGED <<remote, changes, index_state, now, running, prev>>
  /\ call' = NoCall
  /\ UNCHANGED users

\* as rebuildIndexFinish, but only last_full_scan is set
rebuildIndexFinishFullOnly(r) ==
  /\ run[r].pc = "walked"
  /\ run[r].kind = "full"
  /\ LET st == updateState(index_state, [last_full_scan |-> nowIso])
     IN /\ index_state' = st
        /\ run' = [SettledRun EXCEPT ![r].pc = "done",
                               ![r].result = [indexed |-> countType(object_index, "file"),
                                              folders |-> countType(object_index, "folder")]]
        /\ hist' = SettledHist
  /\ running' = "none"
  /\ prev' = [kind |-> "full", clean |-> hist[r].quiet]
  /\ UNCHANGED <<remote, changes, object_index, now>>
  /\ call' = NoCall
  /\ UNCHANGED users

\* rebuildIndex after walkAllObjects has returned
rebuildIndexFinish(r) ==
  /\ run[r].pc = "walked"
  /\ run[r].kind = "full"
  /\ LET st == updateState(index_state, [last_full_scan |-> nowIso, last_delta_scan |-> nowIso])
     IN /\ index_state' = st
        /\ run' = [SettledRun EXCEPT ![r].pc = "done",
                               ![r].result = [indexed |-> countType(object_index, "file"),
                                              folders |-> countType(object_index, "folder")]]
        /\ hist' = SettledHist
  /\ running' = "none"
  /\ prev' = [kind |-> "full", clean |-> hist[r].quiet]
  /\ UNCHANGED <<remote, changes, object_index, now>>
  /\ call' = NoCall
  /\ UNCHANGED users

\* as refreshIndexFinish, but without the deletion sweep
refreshIndexFinishNoSweep(r) ==
  /\ run[r].pc = "walked"
  /\ run[r].kind = "delta"
  /\ LET st == updateState(index_state, [last_delta_scan |-> nowIso])
     IN /\ index_state' = st
        /\ run' = [SettledRun EXCEPT ![r].pc = "done",
                               ![r].result = [added |-> run[r].added,
                                              updated |-> run[r].updated,
                                              removed |-> 0,
                                              files |-> countType(object_index, "file"),
                                              folders |-> countType(object_index, "folder")]]
        /\ hist' = SettledHist
  /\ running' = "none"
  /\ prev' = [kind |-> "delta", clean |-> hist[r].quiet]
  /\ UNCHANGED <<remote, changes, object_index, now>>
  /\ call' = NoCall
  /\ UNCHANGED users

\* refreshIndex after walkAllObjects has returned
refreshIndexFinish(r) ==
  /\ run[r].pc = "walked"
  /\ run[r].kind = "delta"
  /\ LET gone == DOMAIN object_index \ run[r].seenKeys
         idx == sweep(object_index, run[r].seenKeys)
         st == updateState(index_state, [last_delta_scan |-> nowIso])
     IN /\ object_index' = idx
        /\ index_state' = st
        /\ run' = [SettledRun EXCEPT ![r].pc = "done",
                               ![r].result = [added |-> run[r].added,
                                              updated |-> run[r].updated,
                                              removed |-> Cardinality(gone),
                                              files |-> countType(idx, "file"),
                                              folders |-> countType(idx, "folder")]]
        /\ hist' = [SettledHist EXCEPT ![r].deleted = gone]
  /\ running' = "none"
  /\ prev' = [kind |-> "delta", clean |-> hist[r].quiet]
  /\ UNCHANGED <<remote, changes, now>>
  /\ call' = NoCall
  /\ UNCHANGED users

\* the bucket changes: an object is written, overwritten or deleted
remoteChange(k, v) ==
  /\ changes < MaxRemoteChanges
  /\ remote[k] # v
  /\ remote' = [remote EXCEPT ![k] = v]
  /\ changes' = changes + 1
  /\ run' = SettledRun
  /\ hist' = [q \in Runs |-> IF Active(q) THEN [hist[q] EXCEPT !.quiet = FALSE] ELSE IdleHist]
  /\ prev' = [prev EXCEPT !.clean = FALSE]
  /\ UNCHANGED <<object_index, index_state, now, running>>
  /\ call' = NoCall
  /\ UNCHANGED users

(***************************************************************************)
(* Query service.                                                          *)
(***************************************************************************)
\* the limit of a search that names none
DefaultLimit == 20
\* the largest limit a search is run with
MaxLimit == 200

\* Math.min, Math.max
Min(a, b) == IF a < b THEN a ELSE b
Max(a, b) == IF a > b THEN a ELSE b

\* as searchLimit, but without the upper bound
searchLimitAtLeastOne(params) ==
  Max(IF Has(params, "limit") THEN params.limit ELSE DefaultLimit, 1)

\* const limit = Math.min(Math.max(params.limit ?? 20, 1), 200)
searchLimit(params) ==
  Min(Max(IF Has(params, "limit") THEN params.limit ELSE DefaultLimit, 1), MaxLimit)

\* const offset = Math.max(params.offset ?? 0, 0)
searchOffset(params) == Max(IF Has(params, "offset") THEN params.offset ELSE 0, 0)

\* String.prototype.trim for the white space of the model, the blank
RECURSIVE trimStart(_)
trimStart(s) == IF s # <<>> /\ Head(s) = " " THEN trimStart(Tail(s)) ELSE s

RECURSIVE trimEnd(_)
trimEnd(s) == IF s # <<>> /\ s[Len(s)] = " " THEN trimEnd(SubSeq(s, 1, Len(s) - 1)) ELSE s

trim(s) == trimEnd(trimStart(s))

\* params.search.toLowerCase().trim() when params.search is given and not
\* empty; the empty string stands for no condition
needle(params) ==
  IF Has(params, "search") /\ params.search # EmptyStr
  THEN trim(toLowerCase(params.search))
  ELSE EmptyStr

\* `%${needle}%`
like(n) == <<"%">> \o n \o <<"%">>

\* SQL lower() on the characters of the model, all of them ASCII
lower(x) == [i \in 1..Len(x) |-> LowerOf(x[i])]

\* SQL LIKE without ESCAPE: % matches any run of characters, _ any one
\* character, any other character itself (ASCII letters without case)
RECURSIVE likeFrom(_, _, _, _)
likeFrom(pat, i, str, j) ==
  IF i > Len(pat) THEN j > Len(str)
  ELSE IF pat[i] = "%" THEN \E k \in j..(Len(str) + 1) : likeFrom(pat, i + 1, str, k)
  ELSE IF j > Len(str) THEN FALSE
  ELSE IF pat[i] = "_" THEN likeFrom(pat, i + 1, str, j + 1)
  ELSE LowerOf(pat[i]) = LowerOf(str[j]) /\ likeFrom(pat, i + 1, str, j + 1)

\* x LIKE pat; NULL LIKE pat is not true
LIKE(x, pat) == x # NULL /\ likeFrom(pat, 1, lower(x), 1)

\* (lower(name) LIKE ? OR lower(key) LIKE ? OR lower(extension) LIKE ?)
where(key, row, n) ==
  \/ n = EmptyStr
  \/ LIKE(row.name, like(n))
  \/ LIKE(key, like(n))
  \/ LIKE(row.extension, like(n))

\* as orderByUpdatedAtDesc, but ascending
orderByUpdatedAtAsc(idx, ks) ==
  {q \in [1..Cardinality(ks) -> ks] :
     /\ \A i, j \in DOMAIN q : i # j => q[i] # q[j]
     /\ \A i, j \in DOMAIN q : i < j => idx[q[i]].updated_at[1] <= idx[q[j]].updated_at[1]}

\* the keys of the rows that satisfy the WHERE clause
matching(idx, n) == {k \in DOMAIN idx : where(k, idx[k], n)}

\* ORDER BY updated_at DESC: the orders in which the rows can come back; rows
\* of equal updated_at come in an order the statement does not determine
orderByUpdatedAtDesc(idx, ks) ==
  {q \in [1..Cardinality(ks) -> ks] :
     /\ \A i, j \in DOMAIN q : i # j => q[i] # q[j]
     /\ \A i, j \in DOMAIN q : i < j => idx[q[i]].updated_at[1] >= idx[q[j]].updated_at[1]}

\* LIMIT ? OFFSET ?
limitOffset(q, limit, offset) ==
  SubSeq(q, offset + 1, Min(offset + limit, Len(q)))

\* rows.map(...): the item returned for a row
rowToItem(key, row) ==
  [key |-> key, name |-> row.name, extension |-> OrNull(row.extension),
   size |-> row.size,
   lastModified |-> IF row.last_modified = NULL THEN NULL
                    ELSE IF endsWith(row.last_modified, "Z") THEN row.last_modified
                    ELSE Append(row.last_modified, "Z"),
   updatedAt |-> IF endsWith(row.updated_at, "Z") THEN row.updated_at
                 ELSE Append(row.updated_at, "Z"),
   type |-> IF row.type = "folder" THEN "folder" ELSE "file"]

\* what a call returns that reads its rows from table rowsIdx and its count
\* from table countIdx, with the rows coming back in order q
searchResult(params, rowsIdx, q, countIdx) ==
  LET rows == limitOffset(q, searchLimit(params), searchOffset(params))
  IN [op |-> "search", params |-> params,
      limit |-> searchLimit(params), offset |-> searchOffset(params),
      items |-> [i \in 1..Len(rows) |-> rowToItem(rows[i], rowsIdx[rows[i]])],
      total |-> Cardinality(matching(countIdx, needle(params)))]

\* as searchIndexedObjects, but the rows are those read when the run in
\* flight started and the count is read now
searchIndexedObjectsStaleRows(params) ==
  /\ \E r \in Runs :
       LET rowsIdx == IF Active(r) THEN hist[r].pre ELSE object_index
       IN \E q \in orderByUpdatedAtDesc(rowsIdx, matching(rowsIdx, needle(params))) :
            call' = searchResult(params, rowsIdx, q, object_index)
  /\ run' = SettledRun
  /\ hist' = SettledHist
  /\ UNCHANGED <<remote, changes, object_index, index_state, now, running, prev, users>>

\* searchIndexedObjects: both statements run, one after the other without an
\* await between them, on the table as it is
searchIndexedObjects(params) ==
  /\ \E q \in orderByUpdatedAtDesc(object_index, matching(object_index, needle(params))) :
       call' = searchResult(params, object_index, q, object_index)
  /\ run' = SettledRun
  /\ hist' = SettledHist
  /\ UNCHANGED <<remote, changes, object_index, index_state, now, running, prev, users>>

\* LIMIT ? of getRecentIndexedObjects: the limit is bound as given; a
\* negative LIMIT is no limit
recentLimit(q, limit) ==
  IF limit < 0 THEN q ELSE SubSeq(q, 1, Min(limit, Len(q)))

\* as getRecentIndexedObjects, but the rows returned are stamped with the
\* time of the call
getRecentIndexedObjectsTouches(args) ==
  /\ \E q \in orderByUpdatedAtDesc(object_index, DOMAIN object_index) :
       LET rows == recentLimit(q, IF Has(args, "limit") THEN args.limit ELSE DefaultLimit)
       IN /\ call' = [op |-> "recent", args |-> args,
                      items |-> [i \in 1..Len(rows) |-> rowToItem(rows[i], object_index[rows[i]])]]
          /\ object_index' = [k \in DOMAIN object_index |->
                                IF \E i \in 1..Len(rows) : rows[i] = k
                                THEN [object_index[k] EXCEPT !.updated_at = toISOString(now + 1)]
                                ELSE object_index[k]]
  /\ run' = SettledRun
  /\ hist' = SettledHist
  /\ UNCHANGED <<remote, changes, index_state, now, running, prev, users>>

\* getRecentIndexedObjects(limit = 20): one SELECT and the mapping of its rows
getRecentIndexedObjects(args) ==
  /\ \E q \in orderByUpdatedAtDesc(object_index, DOMAIN object_index) :
       LET rows == recentLimit(q, IF Has(args, "limit") THEN args.limit ELSE DefaultLimit)
       IN call' = [op |-> "recent", args |-> args,
                   items |-> [i \in 1..Len(rows) |-> rowToItem(rows[i], object_index[rows[i]])]]
  /\ run' = SettledRun
  /\ hist' = SettledHist
  /\ UNCHANGED <<remote, changes, object_index, index_state, now, running, prev, users>>

\* a call of getIndexStatus returns: two SELECTs
getIndexStatusReturns ==
  /\ call' = [op |-> "status", status |-> getIndexStatus]
  /\ run' = SettledRun
  /\ hist' = SettledHist
  /\ UNCHANGED <<remote, changes, object_index, index_state, now, running, prev, users>>

Init ==
  /\ remote \in {f \in [Keys -> Versions \cup {"none"}] :
                   /\ \A k \in Keys : f[k] \in VersionsOf(k) \cup {"none"}
                   /\ Cardinality({k \in Keys : f[k] # "none"}) <= MaxObjects}
  /\ changes = 0
  /\ object_index = EmptyTable
  /\ index_state = <<>>
  /\ now = 0
  /\ running = "none"
  /\ run = [r \in Runs |-> IdleRun]
  /\ hist = [r \in Runs |-> IdleHist]
  /\ prev = [kind |-> "none", clean |-> FALSE]
  /\ call = NoCall
  /\ users = <<>>

\* where runs may overlap, the initial bucket is smaller
InitOverlap ==
  /\ Init
  /\ Cardinality({k \in Keys : remote[k] # "none"}) <= MaxOverlapObjects

\* The engine as IndexingPanel drives it, against a bucket that does not
\* change: a run may start while another is in flight.
NextOverlap ==
  \/ \E r \in Runs : runFull(r)
  \/ \E r \in Runs : runDelta(r)
  \/ \E r \in Runs : listResponse(r)
  \/ \E r \in Runs : listError(r)
  \/ \E r \in Runs : onObject(r)
  \/ \E r \in Runs : rebuildIndexFinish(r)
  \/ \E r \in Runs : refreshIndexFinish(r)

SpecOverlap == InitOverlap /\ [][NextOverlap]_vars

\* The same, against a remote that answers every request with a page.
NextOverlapAnswered ==
  \/ \E r \in Runs : runFull(r)
  \/ \E r \in Runs : runDelta(r)
  \/ \E r \in Runs : listResponse(r)
  \/ \E r \in Runs : onObject(r)
  \/ \E r \in Runs : rebuildIndexFinish(r)
  \/ \E r \in Runs : refreshIndexFinish(r)

SpecOverlapAnswered == InitOverlap /\ [][NextOverlapAnswered]_vars

\* The engine under callers that serialise the runs, which is what spec.md
\* section 5 demands of the surrounding service: a run starts only when none
\* is in flight.  The bucket may change at any time.
NoRunInFlight == \A q \in Runs : ~Active(q)

NextSerial ==
  \/ \E r \in Runs : NoRunInFlight /\ runFull(r)
  \/ \E r \in Runs : NoRunInFlight /\ runDelta(r)
  \/ \E r \in Runs : listResponse(r)
  \/ \E r \in Runs : listError(r)
  \/ \E r \in Runs : onObject(r)
  \/ \E r \in Runs : rebuildIndexFinish(r)
  \/ \E r \in Runs : refreshIndexFinish(r)
  \/ \E k \in Keys : \E v \in VersionsOf(k) \cup {"none"} : remoteChange(k, v)

SpecSerial == Init /\ [][NextSerial]_vars

\* The same callers, with a database whose statements may throw.
InitFaults ==
  /\ Init
  /\ Cardinality({k \in Keys : remote[k] # "none"}) <= MaxFaultObjects

NextFaults ==
  \/ \E r \in Runs : NoRunInFlight /\ now < MaxFaultClock /\ runFull(r)
  \/ \E r \in Runs : NoRunInFlight /\ now < MaxFaultClock /\ runDelta(r)
  \/ \E r \in Runs : listResponse(r)
  \/ \E r \in Runs : listError(r)
  \/ \E r \in Runs : onObject(r)
  \/ \E r \in Runs : rebuildIndexFinish(r)
  \/ \E r \in Runs : refreshIndexFinish(r)
  \/ \E r \in Runs : writeError(r)
  \/ \E k \in Keys : \E v \in VersionsOf(k) \cup {"none"} : remoteChange(k, v)

SpecFaults == InitFaults /\ [][NextFaults]_vars

\* The keys of a bucket whose listing carries an entry with an empty key,
\* which is also the key equal to the listing prefix "", beside objects at
\* the root of the bucket.
LiveKeys == {EmptyStr, Ka, Kb, Kd}

InitLive ==
  /\ remote \in {f \in [LiveKeys -> {"v1", "none"}] :
                   Cardinality({k \in LiveKeys : f[k] # "none"}) <= MaxLiveObjects}
  /\ changes = 0
  /\ object_index = EmptyTable
  /\ index_state = <<>>
  /\ now = 0
  /\ running = "none"
  /\ run = [r \in Runs |-> IdleRun]
  /\ hist = [r \in Runs |-> IdleHist]
  /\ prev = [kind |-> "none", clean |-> FALSE]
  /\ call = NoCall
  /\ users = <<>>

NextLive ==
  \/ \E r \in Runs : NoRunInFlight /\ now < MaxLiveClock /\ runFull(r)
  \/ \E r \in Runs : NoRunInFlight /\ now < MaxLiveClock /\ runDelta(r)
  \/ \E r \in Runs : listResponse(r)
  \/ \E r \in Runs : listError(r)
  \/ \E r \in Runs : onObject(r)
  \/ \E r \in Runs : rebuildIndexFinish(r)
  \/ \E r \in Runs : refreshIndexFinish(r)

\* the walk of a run in flight goes on: a response arrives, a callback runs,
\* or the run finishes after the last page
resumes ==
  \E r \in Runs :
    \/ listResponse(r)
    \/ listError(r)
    \/ onObject(r)
    \/ rebuildIndexFinish(r)
    \/ refreshIndexFinish(r)

\* The remote answers every request, with a page or with an error, and the
\* event loop runs the continuation that is ready.  With runs that do not
\* overlap there is one such continuation at a time.
Fairness == WF_vars(resumes)

SpecLive == InitLive /\ [][NextLive]_vars /\ Fairness

\* the keys of the buckets the query service is exercised on: a root-level
\* object, the folder marker, an object two folders deep and a root-level
\* object with an upper-case extension
KyC == <<"y", ".", "C">>
QueryKeys == {Ka, Kd, Kdey, KyC}

\* the searches issued: queries with the default page, and pages of the
\* query-less search
Queries ==
  {EmptyStr, <<" ">>, <<"a">>, <<"A">>, <<" ", "y">>, <<"_">>, <<"%">>,
   <<"d", "/">>, <<".", "c">>, <<"y", "_", "c">>}

Limits == {-5, 0, 1, 2, 200, 201, 10000}
Offsets == {-1, 0, 1, 2}

SearchInputs ==
  {<<>>} \cup {[search |-> n] : n \in Queries}
        \cup {[limit |-> l] : l \in Limits}
        \cup {[offset |-> o] : o \in Offsets}
        \cup {[limit |-> l, offset |-> o] : l \in {1, 2}, o \in {1, 2}}
        \cup {[search |-> n, limit |-> 1, offset |-> 1] : n \in {<<"y">>}}

\* the calls of getRecentIndexedObjects: without a limit, and with limits
\* that are negative, zero and positive
RecentInputs == {<<>>, [limit |-> -1], [limit |-> 0], [limit |-> 1]}

InitQuery ==
  /\ remote \in {f \in [QueryKeys -> Versions \cup {"none"}] :
                   /\ \A k \in QueryKeys : f[k] \in VersionsOf(k) \cup {"none"}
                   /\ Cardinality({k \in QueryKeys : f[k] # "none"}) <= MaxQueryObjects}
  /\ changes = 0
  /\ object_index = EmptyTable
  /\ index_state = <<>>
  /\ now = 0
  /\ running = "none"
  /\ run = [r \in Runs |-> IdleRun]
  /\ hist = [r \in Runs |-> IdleHist]
  /\ prev = [kind |-> "none", clean |-> FALSE]
  /\ call = NoCall
  /\ users = <<>>

\* The query service beside the engine: a search may be issued whether a run
\* is in flight or not.  A search changes nothing but what it returns, so a
\* search issued right after another finds what it would have found in its
\* place; the searches are taken one at a time, from the states the engine
\* leaves.
NextQuery ==
  \/ \E r \in Runs : NoRunInFlight /\ now < MaxQueryClock /\ runFull(r)
  \/ \E r \in Runs : NoRunInFlight /\ now < MaxQueryClock /\ runDelta(r)
  \/ \E r \in Runs : listResponse(r)
  \/ \E r \in Runs : listError(r)
  \/ \E r \in Runs : onObject(r)
  \/ \E r \in Runs : rebuildIndexFinish(r)
  \/ \E r \in Runs : refreshIndexFinish(r)
  \/ \E params \in SearchInputs : call = NoCall /\ searchIndexedObjects(params)
  \/ \E args \in RecentInputs : call = NoCall /\ getRecentIndexedObjects(args)
  \/ call = NoCall /\ getIndexStatusReturns

SpecQuery == InitQuery /\ [][NextQuery]_vars

\* the keys extractExtension is applied to: every string of at most MaxKeyLen
\* characters over a lower-case letter, an upper-case letter, the dot and the
\* separator, and three longer keys
KReport == <<"a", "/", "b", "/", "r", "e", "p", "o", "r", "t", ".", "v", "2", ".", "C", "S", "V">>
KNoext == <<"a", "/", "b", "/", "n", "o", "e", "x", "t">>
KDotFolder == <<"a", ".", "b", "/", "n", "o", "e", "x", "t">>

ExtensionInputs ==
  UNION {[1..n -> {"a", "C", ".", "/"}] : n \in 0..MaxKeyLen}
    \cup {KReport, KNoext, KDotFolder}

\* a key is handed to extractExtension
InitExtension ==
  /\ remote = [k \in Keys |-> "none"]
  /\ changes = 0
  /\ object_index = EmptyTable
  /\ index_state = <<>>
  /\ now = 0
  /\ running = "none"
  /\ run = [r \in Runs |-> IdleRun]
  /\ hist = [r \in Runs |-> IdleHist]
  /\ prev = [kind |-> "none", clean |-> FALSE]
  /\ call \in {[op |-> "key", key |-> k] : k \in ExtensionInputs}
  /\ users = <<>>

\* extractExtension returns, and the value bound to the extension column
\* (ext || null) is formed
extractExtensionReturns ==
  /\ call.op = "key"
  /\ call' = [op |-> "extension", key |-> call.key,
              ext |-> extractExtension(call.key),
              column |-> OrNull(extractExtension(call.key))]
  /\ UNCHANGED <<remote, changes, object_index, index_state, now, running, run, hist, prev, users>>

NextExtension == extractExtensionReturns

SpecExtension == InitExtension /\ [][NextExtension]_vars

\* the keys folderPrefixesForKey is applied to: every string of at most
\* MaxKeyLen characters over two letters and the separator, and three longer
\* keys: one three folders deep, one with a doubled separator and one with a
\* leading separator
KDeep == <<"a", "/", "b", "/", "a", "/", "b">>
KDoubled == <<"a", "/", "/", "b", "/", "a">>
KLeading == <<"/", "a", "/", "b", "/", "a">>

FolderInputs ==
  UNION {[1..n -> {"a", "b", "/"}] : n \in 0..MaxKeyLen} \cup {KDeep, KDoubled, KLeading}

\* a key is handed to folderPrefixesForKey
InitFolders ==
  /\ remote = [k \in Keys |-> "none"]
  /\ changes = 0
  /\ object_index = EmptyTable
  /\ index_state = <<>>
  /\ now = 0
  /\ running = "none"
  /\ run = [r \in Runs |-> IdleRun]
  /\ hist = [r \in Runs |-> IdleHist]
  /\ prev = [kind |-> "none", clean |-> FALSE]
  /\ call \in {[op |-> "key", key |-> k] : k \in FolderInputs}
  /\ users = <<>>

folderPrefixesForKeyReturns ==
  /\ call.op = "key"
  /\ call' = [op |-> "folders", key |-> call.key, folders |-> folderPrefixesForKey(call.key)]
  /\ UNCHANGED <<remote, changes, object_index, index_state, now, running, run, hist, prev, users>>

NextFolders == folderPrefixesForKeyReturns

SpecFolders == InitFolders /\ [][NextFolders]_vars

(***************************************************************************)
(* The callback of refreshIndex as a function of the stored row and the    *)
(* descriptor it is handed.  The column last_modified is TEXT: beside NULL  *)
(* and the ISO timestamps the callbacks write, the rows drawn here carry   *)
(* the empty string and a timestamp without the zone marker, the form      *)
(* that rows.map of the query service completes with a Z.                  *)
(***************************************************************************)
StoredTimes == {NULL, EmptyStr, <<"t1">>, toISOString("t1"), toISOString("t2")}

StoredRows ==
  {[name |-> Ka, extension |-> NULL, size |-> n, last_modified |-> lm, etag |-> tag,
    updated_at |-> toISOString(0), type |-> ty] :
     n \in {0, 1}, lm \in StoredTimes, tag \in {NULL, <<"e", "1">>}, ty \in {"file", "folder"}}

\* the descriptors of the object a: S3ObjectDetail with lastModified and etag
\* optional
Descriptors ==
  {[key |-> Ka, size |-> n] : n \in {0, 1}}
    \cup {[key |-> Ka, size |-> n, lastModified |-> lm] :
            n \in {0, 1}, lm \in {EmptyStr, toISOString("t1"), toISOString("t2")}}
    \cup {[key |-> Ka, size |-> n, etag |-> <<"e", "1">>] : n \in {0, 1}}
    \cup {[key |-> Ka, size |-> n, lastModified |-> lm, etag |-> <<"e", "1">>] :
            n \in {0, 1}, lm \in {EmptyStr, toISOString("t1"), toISOString("t2")}}

\* a descriptor is handed to the callback of a refreshIndex, with no row or
\* one row stored for its key
InitEquality ==
  /\ remote = [k \in Keys |-> "none"]
  /\ changes = 0
  /\ object_index \in {EmptyTable} \cup {[k \in {Ka} |-> row] : row \in StoredRows}
  /\ index_state = <<>>
  /\ now = 1
  /\ running = "none"
  /\ run = [r \in Runs |-> IdleRun]
  /\ hist = [r \in Runs |-> IdleHist]
  /\ prev = [kind |-> "none", clean |-> FALSE]
  /\ call \in {[op |-> "descriptor", obj |-> o] : o \in Descriptors}
  /\ users = <<>>

\* the callback of refreshIndex returns
refreshCallbackReturns ==
  /\ call.op = "descriptor"
  /\ \E w \in {refreshOnObject(Work("r1"), call.obj, nowIso)} :
       /\ object_index' = w.idx
       /\ call' = [op |-> "refreshed", obj |-> call.obj, before |-> object_index,
                   added |-> w.added, updated |-> w.updated, writes |-> w.writes]
  /\ UNCHANGED <<remote, changes, index_state, now, running, run, hist, prev, users>>

NextEquality == refreshCallbackReturns

SpecEquality == InitEquality /\ [][NextEquality]_vars

(***************************************************************************)
(* The HTTP API of src/src/server.ts.  A request is a path, a method, what  *)
(* its Authorization header carries and the part of its body or query that  *)
(* the route reads.  The handler is taken as one step.                      *)
(***************************************************************************)
Paths ==
  {"/api/login", "/api/meta", "/api/list", "/api/users", "/api/users/id",
   "/api/folder", "/api/upload", "/api/delete", "/api/link", "/api/other"}

Methods == {"GET", "POST", "PUT", "DELETE"}

\* no header; a header that does not start with "Bearer "; a bearer token
\* not signed with the JWT secret; a signed token past its expiry; a signed
\* token in its lifetime
Auths == {"none", "basic", "forged", "expired", "valid"}

ApiRequests ==
  {[path |-> p, method |-> m, auth |-> a, secret |-> "wrong", key |-> Ka, id |-> 1] :
     p \in Paths, m \in Methods, a \in Auths}
  \cup {[path |-> "/api/login", method |-> m, auth |-> a, secret |-> "right", key |-> Ka, id |-> 1] :
          m \in Methods, a \in Auths}
  \cup {[path |-> p, method |-> m, auth |-> a, secret |-> "wrong", key |-> k, id |-> 1] :
          p \in {"/api/upload", "/api/delete", "/api/link"}, m \in {"GET", "POST"},
          a \in Auths, k \in {Kd, Kdey, EmptyStr}}
  \cup {[path |-> "/api/users/id", method |-> m, auth |-> a, secret |-> "wrong", key |-> Ka, id |-> 2] :
          m \in Methods, a \in Auths}

\* const token = authHeader.startsWith("Bearer ") ? authHeader.slice(7) : ""
bearerToken(req) == IF req.auth \in {"none", "basic"} THEN "" ELSE req.auth

\* verifyAuth: the payload of a token that jwt.verify accepts, null otherwise
verifyAuth(req) ==
  IF bearerToken(req) = "" THEN "null"
  ELSE IF bearerToken(req) = "valid" THEN "payload" ELSE "null"

\* crypto.randomUUID(): an id no row has
randomUUID(us) == CHOOSE i \in 1..(Len(us) + 1) : \A j \in 1..Len(us) : us[j].id # i

\* ensureAdminUser: the table after the call
ensureAdminUser(us) ==
  IF Len(us) > 0 THEN us ELSE <<[id |-> randomUUID(us), name |-> "Admin"]>>

createUser(us, name) == Append(us, [id |-> randomUUID(us), name |-> name])

\* SELECT * FROM users WHERE id = ? finds a row
userExists(us, id) == \E j \in 1..Len(us) : us[j].id = id

\* updateUser on a row that exists: the table after the call
updateUser(us, id, name) ==
  [j \in 1..Len(us) |-> IF us[j].id = id THEN [us[j] EXCEPT !.name = name] ELSE us[j]]

deleteUser(us, id) == SelectSeq(us, LAMBDA u : u.id # id)

\* s starts with p
startsWith(s, p) == Len(s) >= Len(p) /\ SubSeq(s, 1, Len(p)) = p

\* the bucket after createFolder("", "d"), uploadToPrefix("", [key]),
\* deleteObject(key), deleteFolder(key)
putObject(rem, key) == [rem EXCEPT ![key] = "v1"]
deleteObject(rem, key) == [k \in DOMAIN rem |-> IF k = key THEN "none" ELSE rem[k]]
deleteFolder(rem, prefix) ==
  [k \in DOMAIN rem |-> IF startsWith(k, prefix) THEN "none" ELSE rem[k]]

\* the response of a route and what it did
Response(status, ops, us, rem) == [status |-> status, ops |-> ops, users |-> us, remote |-> rem]

\* the routes of handleApi behind the authentication check
routes(req, us, rem) ==
  LET p == req.path
      m == req.method
  IN IF p = "/api/login" /\ m = "POST"
     THEN IF req.secret # "right" THEN Response(401, <<>>, us, rem)
          ELSE Response(200, <<>>, us, rem)
     ELSE IF p = "/api/meta" THEN Response(200, <<>>, us, rem)
     ELSE IF p = "/api/list" /\ m = "GET" THEN Response(200, <<"list">>, us, rem)
     ELSE IF p = "/api/users" /\ m = "GET" THEN Response(200, <<>>, us, rem)
     ELSE IF p = "/api/users" /\ m = "POST"
       THEN Response(201, <<>>, createUser(us, "User"), rem)
     ELSE IF p = "/api/users/id" /\ m = "PUT"
       THEN IF ~userExists(us, req.id) THEN Response(500, <<>>, us, rem)
            ELSE Response(200, <<>>, updateUser(us, req.id, "X"), rem)
     ELSE IF p = "/api/users/id" /\ m = "DELETE"
       THEN Response(200, <<>>, deleteUser(us, req.id), rem)
     ELSE IF p = "/api/folder" /\ m = "POST"
       THEN Response(200, <<"createFolder">>, us, putObject(rem, Kd))
     ELSE IF p = "/api/upload" /\ m = "POST"
       THEN IF req.key = EmptyStr THEN Response(400, <<>>, us, rem)
            ELSE Response(200, <<"upload">>, us, putObject(rem, req.key))
     ELSE IF p = "/api/delete" /\ m = "POST"
       THEN IF req.key = EmptyStr THEN Response(400, <<>>, us, rem)
            ELSE IF endsWith(req.key, "/")
              THEN Response(200, <<"list", "delete">>, us, deleteFolder(rem, req.key))
              ELSE Response(200, <<"delete">>, us, deleteObject(rem, req.key))
     ELSE IF p = "/api/link" /\ m = "GET"
       THEN IF req.key = EmptyStr THEN Response(400, <<>>, us, rem)
            ELSE Response(200, <<"link">>, us, rem)
     ELSE Response(404, <<>>, us, rem)

\* handleApi: ensureAdminUser, then the authentication check, then the routes
handleApiResponse(req, us, rem) ==
  LET admin == ensureAdminUser(us)
  IN IF req.path # "/api/login" /\ verifyAuth(req) = "null"
     THEN Response(401, <<>>, admin, rem)
     ELSE routes(req, admin, rem)

\* a request to a path under /api/ is handled
handleApi(req) ==
  LET res == handleApiResponse(req, users, remote)
  IN /\ Len(res.users) <= MaxUsers
     /\ users' = res.users
     /\ remote' = res.remote
     /\ call' = [op |-> "api", req |-> req, status |-> res.status, ops |-> res.ops,
                 usersBefore |-> users, remoteBefore |-> remote]
     /\ UNCHANGED <<changes, object_index, index_state, now, running, run, hist, prev>>

\* the server starts on a new database and an empty bucket
InitApi ==
  /\ remote = [k \in Keys |-> "none"]
  /\ changes = 0
  /\ object_index = EmptyTable
  /\ index_state = <<>>
  /\ now = 0
  /\ running = "none"
  /\ run = [r \in Runs |-> IdleRun]
  /\ hist = [r \in Runs |-> IdleHist]
  /\ prev = [kind |-> "none", clean |-> FALSE]
  /\ call = NoCall
  /\ users = <<>>

\* the response has gone out to the client
responseSent ==
  /\ call.op = "api"
  /\ call' = NoCall
  /\ UNCHANGED <<remote, changes, object_index, index_state, now, running, run, hist, prev, users>>

\* The requests are taken one at a time: what a request does depends on the
\* users table and the bucket, not on the request answered before it.
NextApi ==
  \/ \E req \in ApiRequests : call = NoCall /\ handleApi(req)
  \/ responseSent

SpecApi == InitApi /\ [][NextApi]_vars

(***************************************************************************)
(* Properties.                                                             *)
(***************************************************************************)
Range(q) == {q[i] : i \in 1..Len(q)}

\* the keys of the objects whose callback has run in invocation r
ProcessedKeys(r) == {it.Key : it \in Range(hist[r].processed)}

\* the folder keys the engine derives from a set of object keys
FolderKeysOf(ks) == UNION {{f.key : f \in Range(folderPrefixesForKey(k))} : k \in ks}

\* the '/'-terminated proper prefixes of a key
PrefixFolders(k) == {SubSeq(k, 1, i) : i \in {j \in 1..(Len(k) - 1) : k[j] = "/"}}

\* the keys whose row differs between two tables
Differs(old, new) ==
  {k \in DOMAIN old \cup DOMAIN new : ~Has(old, k) \/ ~Has(new, k) \/ old[k] # new[k]}

FailedRefresh(r) == run[r].pc = "failed" /\ run[r].kind = "delta"
DoneRefresh(r) == run[r].pc = "done" /\ run[r].kind = "delta"
DoneRebuild(r) == run[r].pc = "done" /\ run[r].kind = "full"

\* C1: when the listing fails during refreshIndex, on whatever page, no
\* deletion has taken place: every entry of the index from before the run is
\* still there when the error reaches the caller, and the rows that differ
\* from the pre-run index are rows of objects of the pages processed before
\* the failure, or of their folders.
C1_FailedRefreshDeletesNothing ==
  \A r \in Runs : FailedRefresh(r) =>
    /\ hist[r].deleted = {}
    /\ DOMAIN hist[r].pre \subseteq DOMAIN object_index
    /\ Differs(hist[r].pre, object_index)
          \subseteq ProcessedKeys(r) \cup FolderKeysOf(ProcessedKeys(r))
    /\ Differs(hist[r].pre, object_index) \subseteq Range(hist[r].writes)

\* a refreshIndex failed on its second page, after it had written rows of the
\* first, with an entry in the index that the sweep would have deleted
C1_Witness ==
  \E r \in Runs :
    /\ FailedRefresh(r)
    /\ Len(hist[r].processed) = PageSize
    /\ hist[r].writes # <<>>
    /\ DOMAIN hist[r].pre \ run[r].seenKeys # {}

\* invocation r is a refreshIndex that has completed directly after a completed
\* refreshIndex, and the bucket has not changed since that one started
SecondRefresh(r) ==
  /\ DoneRefresh(r)
  /\ hist[r].after.kind = "delta"
  /\ hist[r].after.clean
  /\ hist[r].quiet

\* C2: idempotence of refreshIndex, whatever the bucket holds (keys that end
\* in '/' included): a refreshIndex that completes directly after a completed
\* refreshIndex, with no change of the bucket and no other run in between,
\* returns added = 0, updated = 0 and removed = 0.
C2_SecondRefreshFindsNothing ==
  \A r \in Runs : SecondRefresh(r) =>
    /\ run[r].result.added = 0
    /\ run[r].result.updated = 0
    /\ run[r].result.removed = 0

\* the keys of the objects in the bucket
ObjectKeys(rem) == {k \in DOMAIN rem : rem[k] # "none"}

IsFolder(idx, k) == Has(idx, k) /\ idx[k].type = "folder"

\* a key without its empty path segments: a '/' that starts the key or
\* follows a '/' is dropped
RECURSIVE CollapseFrom(_, _)
CollapseFrom(k, i) ==
  IF i > Len(k) THEN <<>>
  ELSE IF k[i] = "/" /\ (i = 1 \/ k[i - 1] = "/") THEN CollapseFrom(k, i + 1)
  ELSE <<k[i]>> \o CollapseFrom(k, i + 1)

Collapse(k) == CollapseFrom(k, 1)

\* the ancestor folder keys of a key: its '/'-terminated proper prefixes,
\* each without its empty segments
AncestorFolders(k) == {Collapse(p) : p \in PrefixFolders(k)} \ {EmptyStr}

FilesHaveFolders(idx, Folders(_)) ==
  \A k \in DOMAIN idx : idx[k].type = "file" =>
    \A f \in Folders(k) : IsFolder(idx, f)

C5_OneRunAtATime == Cardinality({r \in Runs : Active(r)}) <= 1

\* C6: a run of either kind that fails because the listing fails leaves a
\* superset of the pre-run index: no entry from before the run is gone when
\* the failure is reported.
C6_FailedRunKeepsEntries ==
  \A r \in Runs : run[r].pc = "failed" => DOMAIN hist[r].pre \subseteq DOMAIN object_index

\* the row that mirrors an entry of the listing: a file with the remote
\* size, modification time and checksum tag
Mirrors(row, item) ==
  /\ row.type = "file"
  /\ row.size = (IF Has(item, "Size") THEN item.Size ELSE 0)
  /\ row.last_modified = (IF Has(item, "LastModified") THEN <<item.LastModified, "Z">> ELSE NULL)
  /\ row.etag = (IF Has(item, "ETag") THEN SelectSeq(item.ETag, LAMBDA c : c # "\"") ELSE NULL)

\* C7: after rebuildIndex completes, with no other run overlapping and the
\* bucket unchanged during the run, the key set of the index is the set of
\* object keys of the bucket united with their ancestor folder keys, and every
\* object key is stored as a file-kind entry with the remote size,
\* modification time and checksum tag.
C7_RebuildMirrorsBucket ==
  \A r \in Runs : (DoneRebuild(r) /\ hist[r].alone /\ hist[r].quiet) =>
    /\ DOMAIN object_index = ObjectKeys(remote) \cup FolderKeysOf(ObjectKeys(remote))
    /\ \A k \in ObjectKeys(remote) : Mirrors(object_index[k], Item(k, remote[k]))

\* the keys invocation r has observed: the objects it was handed and their
\* ancestor folders
Observed(r) == ProcessedKeys(r) \cup UNION {AncestorFolders(k) : k \in ProcessedKeys(r)}

\* the index held a.txt and b.txt, the bucket holds a.txt only, unchanged
RemovalExample(r) ==
  /\ DOMAIN hist[r].pre = {Ka, Kb}
  /\ ProcessedKeys(r) = {Ka}
  /\ \A it \in Range(hist[r].processed) : Mirrors(hist[r].pre[Ka], it)

\* C8: after refreshIndex completes, every key that was in the index and was
\* not observed in this run is deleted, no observed key is deleted, and the
\* returned removed is the number of deleted keys; the index {a, b} with the
\* bucket {a} gives added 0, updated 0, removed 1, files 1, folders 0.
C8_SweepDeletesTheUnobserved ==
  \A r \in Runs : DoneRefresh(r) =>
    /\ \A k \in DOMAIN hist[r].pre \ Observed(r) : ~Has(object_index, k)
    /\ \A k \in (DOMAIN hist[r].pre \cup Range(hist[r].writes)) \cap Observed(r) :
          Has(object_index, k)
    /\ hist[r].deleted = DOMAIN hist[r].pre \ DOMAIN object_index
    /\ run[r].result.removed = Cardinality(DOMAIN hist[r].pre \ DOMAIN object_index)
    /\ RemovalExample(r) =>
          run[r].result = [added |-> 0, updated |-> 0, removed |-> 1, files |-> 1, folders |-> 0]

\* a refreshIndex has completed in the case of the example, and b is gone
C8_Witness ==
  \E r \in Runs : DoneRefresh(r) /\ RemovalExample(r) /\ ~Has(object_index, Kb)

\* C9: during refreshIndex an entry whose stored kind, size, modification
\* time and checksum tag equal those of the remote object is left untouched:
\* no write is issued for its key and its row, updated_at included, is after
\* the run what it was before.
C9_MatchingEntryUntouched ==
  \A r \in Runs : DoneRefresh(r) =>
    \A it \in Range(hist[r].processed) :
      (Has(hist[r].pre, it.Key) /\ Mirrors(hist[r].pre[it.Key], it)) =>
        /\ it.Key \notin Range(hist[r].writes)
        /\ Has(object_index, it.Key)
        /\ object_index[it.Key] = hist[r].pre[it.Key]

\* the values a field of the scan state takes
ScanTimes == {NULL, toISOString(0), toISOString(1)}

ScanStates ==
  {<<>>} \cup {[id \in {1} |-> [last_full_scan |-> a, last_delta_scan |-> b]] :
                a \in ScanTimes, b \in ScanTimes}

PartialUpdates ==
  {<<>>} \cup {[last_full_scan |-> a] : a \in ScanTimes}
        \cup {[last_delta_scan |-> b] : b \in ScanTimes}

\* C10: a completed refreshIndex sets lastDeltaScan to the completion time
\* and leaves lastFullScan as it was before the run (absent stays absent);
\* updating the scan state with a partial record changes no field that the
\* record does not name.
C10_RefreshLeavesFullScan ==
  /\ \A r \in Runs : DoneRefresh(r) =>
        /\ getState(index_state).last_delta_scan = toISOString(now)
        /\ getState(index_state).last_full_scan = getState(hist[r].preState).last_full_scan
        /\ getIndexStatus.lastFullScan = getState(hist[r].preState).last_full_scan
  /\ \A st \in ScanStates : \A u \in PartialUpdates :
        \A f \in {"last_full_scan", "last_delta_scan"} \ DOMAIN u :
          getState(updateState(st, u))[f] = getState(st)[f]

\* a refreshIndex has completed after an earlier rebuildIndex had set both
\* timestamps, and lastDeltaScan has moved on
C10_Witness ==
  \E r \in Runs :
    /\ DoneRefresh(r)
    /\ getState(hist[r].preState).last_full_scan # NULL
    /\ getState(index_state).last_delta_scan # getState(hist[r].preState).last_delta_scan

\* C11: a completed rebuildIndex sets lastFullScan and lastDeltaScan to the
\* same completion timestamp, and getIndexStatus then reports both as
\* non-null.
C11_RebuildSetsBothScans ==
  \A r \in Runs : DoneRebuild(r) =>
    /\ getState(index_state).last_full_scan = toISOString(now)
    /\ getState(index_state).last_delta_scan = toISOString(now)
    /\ getIndexStatus.lastFullScan # NULL
    /\ getIndexStatus.lastDeltaScan # NULL
    /\ getIndexStatus.lastFullScan = getIndexStatus.lastDeltaScan

\* a rebuildIndex has completed after an earlier refreshIndex had set
\* lastDeltaScan alone, at an earlier time
C11_Witness ==
  \E r \in Runs :
    /\ DoneRebuild(r)
    /\ getState(hist[r].preState).last_full_scan = NULL
    /\ getState(hist[r].preState).last_delta_scan \notin {NULL, toISOString(now)}

\* the ancestor folder keys of the objects of a bucket
AncestorsOfBucket(rem) == UNION {AncestorFolders(k) : k \in ObjectKeys(rem)}

\* C16: rebuildIndex returns the numbers of file-kind and of folder-kind
\* entries stored at completion; for a bucket, unchanged during the run, of n
\* objects whose keys have m distinct ancestor folders it returns indexed = n
\* and folders = m.
C16_RebuildCountsTheBucket ==
  \A r \in Runs : (DoneRebuild(r) /\ hist[r].quiet) =>
    /\ run[r].result.indexed = Cardinality({k \in DOMAIN object_index : object_index[k].type = "file"})
    /\ run[r].result.folders = Cardinality({k \in DOMAIN object_index : object_index[k].type = "folder"})
    /\ run[r].result = [indexed |-> Cardinality(ObjectKeys(remote)),
                        folders |-> Cardinality(AncestorsOfBucket(remote))]

\* 1 when the condition holds, 0 otherwise
Count(b) == IF b THEN 1 ELSE 0

\* the step is the callback of refreshIndex invocation r on the next entry
RefreshCallback(r) ==
  /\ run[r].pc = "page"
  /\ run[r].kind = "delta"
  /\ hist'[r].processed = Append(hist[r].processed, Head(run[r].contents))

\* a folder row that is not a folder, has a size or carries a modification time
WrongFolder(row) == row.type # "folder" \/ row.size # 0 \/ row.last_modified # NULL

\* C19: in refreshIndex an observed object is counted in added iff no entry
\* with its key existed when it was looked up, in updated iff an entry existed
\* and differed in kind, size, modification time or checksum tag, and in
\* neither iff it matched; an ancestor folder first met in the run is counted
\* in added iff absent and in updated iff present but not a folder, of
\* nonzero size or carrying a modification time.
C19_RefreshClassifies ==
  [][\A r \in Runs : RefreshCallback(r) =>
       LET it == Head(run[r].contents)
           met == UNION {AncestorFolders(k) : k \in ProcessedKeys(r)}
           first == AncestorFolders(it.Key) \ met
           absent == {f \in first : ~Has(object_index, f)}
           wrong == {f \in first : Has(object_index, f) /\ WrongFolder(object_index[f])}
       IN /\ run'[r].added = run[r].added + Cardinality(absent)
                               + Count(~Has(object_index, it.Key))
          /\ run'[r].updated = run[r].updated + Cardinality(wrong)
                               + Count(Has(object_index, it.Key)
                                       /\ ~Mirrors(object_index[it.Key], it))]_vars

\* a refreshIndex has counted an added and an updated entry and has left an
\* object that matched its entry uncounted and unwritten
C19_Witness ==
  \E r \in Runs :
    /\ run[r].kind = "delta"
    /\ run[r].added >= 1
    /\ run[r].updated >= 1
    /\ \E it \in Range(hist[r].processed) :
          /\ Has(hist[r].pre, it.Key)
          /\ Mirrors(hist[r].pre[it.Key], it)
          /\ it.Key \notin Range(hist[r].writes)

\* the contents of a table: per key its row without updated_at
Contents(idx) ==
  [k \in DOMAIN idx |->
     [f \in {"type", "name", "extension", "size", "last_modified", "etag"} |-> idx[k][f]]]

\* the table after the rebuildIndex callback has run on the entries i.. of a listing
RECURSIVE RebuildFrom(_, _, _)
RebuildFrom(w, items, i) ==
  IF i > Len(items) THEN w.idx
  ELSE RebuildFrom(rebuildOnObject(w, S3ObjectDetail(items[i]), toISOString(0)), items, i + 1)

\* the table a completed rebuildIndex produces against a bucket
RebuildOf(rem) ==
  LET sorted == SortKeys(ObjectKeys(rem))
      items == [i \in 1..Len(sorted) |-> Item(sorted[i], rem[sorted[i]])]
      w == [idx |-> EmptyTable, seenKeys |-> {}, seenFolders |-> {}, added |-> 0,
            updated |-> 0, indexed |-> 0, writes |-> <<>>, lookups |-> <<>>]
  IN RebuildFrom(w, items, 1)

\* C20: from every reachable prior index, the superset state a failed run
\* leaves included, the contents of the index after a completed refreshIndex
\* (the keys, and per key kind, name, extension, size, modification time and
\* checksum tag) are those a completed rebuildIndex produces against the same
\* bucket.
C20_RefreshAgreesWithRebuild ==
  \A r \in Runs : (DoneRefresh(r) /\ hist[r].quiet) =>
    Contents(object_index) = Contents(RebuildOf(remote))

\* a refreshIndex has completed that started from what a failed run had left
\* and has deleted an entry of it
C20_Witness ==
  \E r \in Runs :
    /\ DoneRefresh(r)
    /\ hist[r].quiet
    /\ hist[r].after.kind = "failed"
    /\ hist[r].pre # EmptyTable
    /\ hist[r].deleted # {}

\* a call of searchIndexedObjects has just returned
SearchReturned == call.op = "search"

\* the keys of the items a search returned, in their order
ItemKeys == [i \in 1..Len(call.items) |-> call.items[i].key]

\* a run is in flight
RunInFlight == \E r \in Runs : Active(r)

\* C12: a search issued while a rebuildIndex or a refreshIndex is in flight is
\* not blocked, and what it returns is computed from one state of the index:
\* total counts the matching rows of the table the items were read from.
C12_SearchReadsOneState ==
  /\ (RunInFlight /\ call = NoCall) =>
        ENABLED (\E params \in SearchInputs : searchIndexedObjects(params))
  /\ (RunInFlight /\ SearchReturned) =>
        LET found == matching(object_index, needle(call.params))
        IN /\ call.total = Cardinality(found)
           /\ Len(call.items) = Min(call.limit, Max(call.total - call.offset, 0))
           /\ \A i \in 1..Len(call.items) :
                /\ call.items[i].key \in found
                /\ call.items[i] = rowToItem(call.items[i].key, object_index[call.items[i].key])

\* a search has returned while a rebuildIndex was between two entries of a
\* page, the table emptied and partly filled again
C12_Witness ==
  /\ SearchReturned
  /\ call.total >= 1
  /\ \E r \in Runs :
       /\ run[r].pc = "page"
       /\ run[r].kind = "full"
       /\ hist[r].pre # EmptyTable
       /\ DOMAIN object_index # DOMAIN hist[r].pre

\* the limit and the offset a search names, or their defaults
GivenLimit == IF Has(call.params, "limit") THEN call.params.limit ELSE 20
GivenOffset == IF Has(call.params, "offset") THEN call.params.offset ELSE 0

\* C13: the effective limit of a search is min(max(limit, 1), 200) and its
\* effective offset max(offset, 0), with defaults 20 and 0; a search returns
\* at most 200 items, and limit = 10000 returns what limit = 200 returns.
C13_LimitAndOffsetClamped ==
  SearchReturned =>
    /\ call.limit = (IF GivenLimit < 1 THEN 1 ELSE IF GivenLimit > 200 THEN 200 ELSE GivenLimit)
    /\ call.offset = (IF GivenOffset < 0 THEN 0 ELSE GivenOffset)
    /\ Len(call.items) <= 200
    /\ Len(call.items) <= call.limit
    /\ (call.params = [limit |-> 10000]) =>
          \E q \in orderByUpdatedAtDesc(object_index, matching(object_index, EmptyStr)) :
            [call EXCEPT !.params = [limit |-> 200]]
              = searchResult([limit |-> 200], object_index, q, object_index)

\* a search with limit = 10000 has returned from an index of several entries
C13_Witness ==
  /\ SearchReturned
  /\ call.params = [limit |-> 10000]
  /\ call.limit = 200
  /\ Len(call.items) >= 2

\* C14: total is the number of all entries that match the query, all entries
\* when the query is empty or absent, whatever limit and offset are; the
\* items are the slice [offset, offset + limit) of the matching entries
\* ordered by updatedAt descending.
C14_TotalAndSlice ==
  SearchReturned =>
    LET found == IF ~Has(call.params, "search") \/ call.params.search = EmptyStr
                 THEN DOMAIN object_index
                 ELSE matching(object_index, needle(call.params))
    IN /\ call.total = Cardinality(found)
       /\ Len(call.items) = Max(0, Min(call.limit, Cardinality(found) - call.offset))
       /\ \E q \in [1..Cardinality(found) -> found] :
            /\ \A i, j \in DOMAIN q : i # j => q[i] # q[j]
            /\ \A i, j \in DOMAIN q :
                 i < j => object_index[q[i]].updated_at[1] >= object_index[q[j]].updated_at[1]
            /\ \A i \in 1..Len(call.items) : call.items[i].key = q[call.offset + i]

\* a search with an offset has returned one entry of an index whose entries
\* were not all written at the same time
C14_Witness ==
  /\ SearchReturned
  /\ call.offset >= 1
  /\ Len(call.items) = 1
  /\ call.total >= 3
  /\ \E j, k \in DOMAIN object_index :
       object_index[j].updated_at # object_index[k].updated_at

\* s holds sub as a contiguous run of characters
Contains(s, sub) ==
  \E i \in 1..(Len(s) - Len(sub) + 1) : SubSeq(s, i, i + Len(sub) - 1) = sub

\* the entries in which the lower-cased query occurs literally, in the
\* lower-cased name, key or extension
LiteralMatches(idx, q) ==
  {k \in DOMAIN idx :
     \/ Contains(toLowerCase(idx[k].name), toLowerCase(q))
     \/ Contains(toLowerCase(k), toLowerCase(q))
     \/ idx[k].extension # NULL /\ Contains(toLowerCase(idx[k].extension), toLowerCase(q))}

\* C15: for a non-empty query q an entry is returned, and counted in total,
\* iff lower-cased q occurs as a literal contiguous substring of the entry's
\* lower-cased name, key or extension; no character of q is a wildcard and q
\* is not altered otherwise.
C15_LiteralSubstringMatch ==
  (SearchReturned /\ DOMAIN call.params = {"search"} /\ call.params.search # EmptyStr) =>
    /\ Range(ItemKeys) = LiteralMatches(object_index, call.params.search)
    /\ call.total = Cardinality(LiteralMatches(object_index, call.params.search))

\* the positions of a character in a key
Positions(k, c) == {i \in 1..Len(k) : k[i] = c}

\* the largest element of a non-empty set of positions
Last(S) == CHOOSE i \in S : \A j \in S : j <= i

\* C17: the extension of a key is the lower-cased substring after the last
\* '.' of the key when that dot lies after the last '/', and absent otherwise:
\* "a/b/report.v2.CSV" gives "csv", "a/b/noext" and "a.b/noext" give none.
C17_ExtensionAfterLastDot ==
  (call.op = "extension") =>
    LET k == call.key
        dots == Positions(k, ".")
        inName == dots # {} /\ \A j \in Positions(k, "/") : j < Last(dots)
    IN /\ inName => call.ext = toLowerCase(SubSeq(k, Last(dots) + 1, Len(k)))
       /\ ~inName => call.ext = EmptyStr /\ call.column = NULL
       /\ call.ext # EmptyStr => call.column = call.ext
       /\ k = KReport => call.ext = <<"c", "s", "v">>
       /\ k = KNoext => call.column = NULL
       /\ k = KDotFolder => call.column = NULL

\* extractExtension has returned for the key with a dot in a folder segment
C17_Witness ==
  /\ call.op = "extension"
  /\ call.key = KDotFolder
  /\ call.ext = EmptyStr

\* a request to the API has just been answered
ApiAnswered == call.op = "api"

\* the request carried no bearer token that is signed and in its lifetime
NoValidToken == call.req.auth # "valid"

\* C18: a request to a path under /api/ other than /api/login that carries no
\* valid bearer token is answered Unauthorized, and handling it performs no
\* bucket operation and changes nothing in the users table.
C18_UnauthorizedDoesNothing ==
  (ApiAnswered /\ call.req.path # "/api/login" /\ NoValidToken) =>
    /\ call.status = 401
    /\ call.ops = <<>>
    /\ remote = call.remoteBefore
    /\ users = call.usersBefore

\* invocation r has ended with an error
FailedRun(r) == run[r].pc = "failed"

\* C21: a rebuildIndex or refreshIndex that fails, because the listing fails
\* or because a statement on the database throws, leaves the scan state, and
\* with it lastFullScan and lastDeltaScan, exactly as it was before the run;
\* the caller receives an error and no summary.
C21_FailedRunKeepsScanState ==
  \A r \in Runs : FailedRun(r) =>
    /\ index_state = hist[r].preState
    /\ DOMAIN run[r].result = {"error"}
    /\ run[r].result.error \in {"list", "write"}

\* a run that follows a completed run has written rows and then failed on a
\* statement on the database
C21_Witness ==
  \E r \in Runs :
    /\ FailedRun(r)
    /\ run[r].result.error = "write"
    /\ hist[r].preState # <<>>
    /\ hist[r].writes # <<>>

\* a run completes in this step
RunCompletes == \E r \in Runs : run[r].pc # "done" /\ run'[r].pc = "done"

\* getIndexStatus reports no scan
ReportsNoScan == getIndexStatus.lastFullScan = NULL /\ getIndexStatus.lastDeltaScan = NULL

\* C22: the scan state is a singleton.  There is at most one scan-state
\* record in every state; there is none, and getIndexStatus reports both
\* timestamps as null, until a run completes; a record, once there, is never
\* deleted, not even by the clear step of a later rebuildIndex.
C22_ScanStateSingleton ==
  /\ DOMAIN index_state = {} /\ ReportsNoScan
  /\ [][/\ DOMAIN index_state' \subseteq {1}
        /\ (DOMAIN index_state = {} /\ ~RunCompletes) => (DOMAIN index_state' = {} /\ ReportsNoScan')
        /\ DOMAIN index_state # {} => DOMAIN index_state' # {}]_vars

\* a rebuildIndex that follows a completed run has emptied the table of
\* entries, and the scan-state record is there
C22_Witness ==
  \E r \in Runs :
    /\ Active(r)
    /\ run[r].kind = "full"
    /\ DOMAIN hist[r].pre # {}
    /\ DOMAIN hist[r].preState # {}
    /\ DOMAIN object_index = {}
    /\ DOMAIN index_state = {1}

\* C23: in every index state, every folder-kind entry has size 0, no
\* extension, no modification time, no checksum tag, and a key that ends with
\* the separator.
C23_FolderEntriesAreBare ==
  \A k \in DOMAIN object_index :
    object_index[k].type = "folder" =>
      /\ object_index[k].size = 0
      /\ object_index[k].extension = NULL
      /\ object_index[k].last_modified = NULL
      /\ object_index[k].etag = NULL
      /\ endsWith(k, "/")

\* the index holds the folder entry d/e/ of an object two folders deep, beside
\* the entry of the folder marker d/, which is a file-kind entry
C23_Witness ==
  /\ Has(object_index, <<"d", "/", "e", "/">>)
  /\ object_index[<<"d", "/", "e", "/">>].type = "folder"
  /\ Has(object_index, Kd)
  /\ object_index[Kd].type = "file"

\* the keys of the entries a run has handed to its callback, followed by the
\* keys of the entries of the current page it has yet to hand over
InOrderReceived(r) ==
  [i \in 1..Len(hist[r].processed) |-> hist[r].processed[i].Key]
    \o [i \in 1..Len(run[r].contents) |-> run[r].contents[i].Key]

\* invocation r issues the request for a page in this step
FetchIssued(r) == run'[r].pc = "fetch" /\ (run[r].pc # "fetch" \/ run'[r].token # run[r].token)

\* a callback of invocation r runs in this step
CallbackRuns(r) == Active(r) /\ run'[r].kind = run[r].kind /\ hist'[r].processed # hist[r].processed

\* C24: within one run, pages are processed in the order received and objects
\* one at a time.  While the request for a page is outstanding no entry of an
\* earlier page waits for its callback; the entries reach the callback in the
\* order of the listing, across pages; a step runs the callback of one entry,
\* the first of the page that has not had its callback; and the request for
\* the next page is issued only when the callbacks of all entries of the page
\* have finished.
C24_PagesAndObjectsInOrder ==
  /\ [](\A r \in Runs : Active(r) =>
          /\ run[r].pc = "fetch" => run[r].contents = <<>>
          /\ \A i, j \in 1..Len(InOrderReceived(r)) :
               i < j => KeyLess(InOrderReceived(r)[i], InOrderReceived(r)[j]))
  /\ [][\A r \in Runs :
          /\ CallbackRuns(r) =>
               /\ run[r].pc = "page"
               /\ hist'[r].processed = Append(hist[r].processed, Head(run[r].contents))
               /\ run'[r].pc = "page" => run'[r].contents = Tail(run[r].contents)
          /\ (Active(r) /\ run'[r].kind = run[r].kind /\ FetchIssued(r)) =>
               /\ run'[r].contents = <<>>
               /\ run[r].pc = "page"
               /\ Len(run[r].contents) = 1
               /\ CallbackRuns(r)]_vars

\* a run is handing the entries of its second page to the callback, after a
\* first page of PageSize entries
C24_Witness ==
  \E r \in Runs :
    /\ Active(r)
    /\ Len(hist[r].processed) = PageSize + 1
    /\ run[r].token # NULL

\* no element occurs twice in sequence q
NoDuplicates(q) == \A i, j \in 1..Len(q) : i # j => q[i] # q[j]

\* C25: within one run of rebuildIndex each ancestor folder key is upserted
\* at most once, on however many pages the objects lie that share it; within
\* one run of refreshIndex each ancestor folder key is looked up at most once
\* and written at most once.  The sets of seen folders and seen keys are
\* empty when a run starts, whatever the runs before it have seen.
C25_FoldersOncePerRun ==
  \A r \in Runs : (Active(r) \/ Ended(r)) =>
    /\ NoDuplicates(hist[r].folderWrites)
    /\ NoDuplicates(hist[r].folderLookups)
    /\ Range(hist[r].folderWrites) \subseteq run[r].seenFolders
    /\ run[r].kind = "delta" => Range(hist[r].folderLookups) = run[r].seenFolders
    /\ (Active(r) /\ hist[r].processed = <<>>) =>
         run[r].seenFolders = {} /\ run[r].seenKeys = {}

\* a rebuildIndex that follows a run which had written the folder d/ has
\* handed two objects under d/ to its callback, one on each page
C25_Witness ==
  \E r \in Runs :
    /\ run[r].kind = "full"
    /\ Has(hist[r].pre, Kd)
    /\ Len(hist[r].processed) = PageSize + 1
    /\ {Kdz, Kdey} \subseteq ProcessedKeys(r)
    /\ hist[r].folderWrites = <<Kd, <<"d", "/", "e", "/">> >>

\* the entries of the pages received that are not skipped
NotSkipped(q) == SelectSeq(q, LAMBDA item : item.Key # EmptyStr /\ item.Key # normalized)

\* invocation r has returned its summary
DoneRun(r) == run[r].pc = "done"

\* C26: the enumeration ends exactly when a page comes without a
\* continuation cursor.  The walk has ended only after such a page, and it
\* asks for a further page only with the cursor of the page before; a run that
\* returns its summary has received every entry of the listing and has run
\* the callback exactly once for each entry of each page, in their order, but
\* for the entries with an empty key or the key of the listing prefix; and
\* every run that has started returns a summary or an error.
C26_EnumerationTerminates ==
  /\ [](\A r \in Runs :
          /\ run[r].pc = "walked" => run[r].token = NULL
          /\ (run[r].pc = "fetch" /\ hist[r].listed # <<>>) => run[r].token # NULL
          /\ DoneRun(r) =>
               /\ hist[r].processed = NotSkipped(hist[r].listed)
               /\ NoDuplicates(hist[r].processed)
               /\ {hist[r].listed[i].Key : i \in 1..Len(hist[r].listed)} = ObjectKeys(remote))
  /\ \A r \in Runs : Active(r) ~> (DoneRun(r) \/ FailedRun(r))

\* a run has returned its summary after two pages, the first of which held
\* an entry with an empty key that was skipped
C26_Witness ==
  \E r \in Runs :
    /\ DoneRun(r)
    /\ Len(hist[r].listed) = PageSize + 1
    /\ hist[r].listed[1].Key = EmptyStr
    /\ Len(hist[r].processed) = PageSize

\* a modification time with "absent" and the empty string taken as one, and a
\* timestamp without the trailing zone marker completed with it
NormalTime(x) ==
  IF x = NULL \/ x = EmptyStr THEN NULL
  ELSE IF endsWith(x, "Z") THEN x ELSE Append(x, "Z")

\* the modification time of a descriptor, NULL when it has none
RemoteTime(obj) == IF Has(obj, "lastModified") THEN obj.lastModified ELSE NULL

\* the callback of refreshIndex has returned for an object whose stored row is
\* a file of the remote size and tag, and whose stored and remote modification
\* times are the same once normalised
SameButForTimeForm ==
  /\ call.op = "refreshed"
  /\ Has(call.before, Ka)
  /\ call.before[Ka].type = "file"
  /\ call.before[Ka].size = call.obj.size
  /\ call.before[Ka].etag = objEtag(call.obj)
  /\ NormalTime(call.before[Ka].last_modified) = NormalTime(RemoteTime(call.obj))

Bare(item) == ~Has(item, "Size") /\ ~Has(item, "LastModified") /\ ~Has(item, "ETag")

\* the row of an object without metadata: size 0, no modification time, no tag
BareRow(row) ==
  /\ row.type = "file"
  /\ row.size = 0
  /\ row.last_modified = NULL
  /\ row.etag = NULL

\* C28: a descriptor with missing metadata never fails a run.  The step that
\* takes an entry without size, modification time and tag off the page is its
\* callback running to the end: the run has not failed, the entry is indexed
\* with size 0 and without modification time and tag, and the run goes on with
\* the next entry of the page, the next page, or its completion.  The row
\* stays so while the run is in flight and when it has completed.
C28_MissingMetadataTolerated ==
  /\ [](\A r \in Runs : (Active(r) \/ DoneRun(r)) =>
          \A i \in 1..Len(hist[r].processed) :
            Bare(hist[r].processed[i]) =>
              /\ Has(object_index, hist[r].processed[i].Key)
              /\ BareRow(object_index[hist[r].processed[i].Key]))
  /\ [][\A r \in Runs :
          (run[r].pc = "page" /\ Bare(Head(run[r].contents)) /\ run'[r] # run[r]) =>
            /\ run'[r].pc \in {"page", "fetch", "walked"}
            /\ hist'[r].processed = Append(hist[r].processed, Head(run[r].contents))
            /\ run'[r].pc = "page" => run'[r].contents = Tail(run[r].contents)]_vars

\* a run has indexed an object without metadata, has gone on to the next
\* object and has returned its summary
C28_Witness ==
  \E r \in Runs :
    /\ DoneRun(r)
    /\ Len(hist[r].processed) >= 2
    /\ Bare(hist[r].processed[1])
    /\ ~Bare(hist[r].processed[2])

\* folderPrefixesForKey has returned
FoldersReturned == call.op = "folders"

\* the prefixes of key k that end with a separator and are not all of k, from
\* the shortest to the longest
SeparatorsBeforeEnd(k) == {i \in 1..(Len(k) - 1) : k[i] = "/"}

NthOf(S, n) == CHOOSE i \in S : Cardinality({j \in S : j < i}) = n - 1

ProperPrefix(k, n) == SubSeq(k, 1, NthOf(SeparatorsBeforeEnd(k), n))

\* the last segment of a folder key: what lies between its closing separator
\* and the separator before
LastSegment(f) ==
  LET before == {i \in 1..(Len(f) - 1) : f[i] = "/"}
  IN SubSeq(f, (IF before = {} THEN 0 ELSE NthOf(before, Cardinality(before))) + 1, Len(f) - 1)

\* C29 as stated: the ancestor folder list of a key holds one pair for every
\* proper ancestor directory of the key, that is for every prefix of the key
\* that ends with a separator and is not the key itself, from the shallowest
\* to the deepest, with the last segment of the prefix as its name; a key
\* without a separator yields the empty list.
C29_OnePairPerPrefix ==
  FoldersReturned =>
    /\ Len(call.folders) = Cardinality(SeparatorsBeforeEnd(call.key))
    /\ \A n \in 1..Len(call.folders) :
         /\ call.folders[n].key = ProperPrefix(call.key, n)
         /\ call.folders[n].name = LastSegment(call.folders[n].key)

\* the non-empty segments of key k: where they start, where the one that
\* starts at i ends, and the n-th of them
SegmentStarts(k) == {i \in 1..Len(k) : k[i] # "/" /\ (i = 1 \/ k[i - 1] = "/")}

SegmentEnd(k, i) ==
  CHOOSE j \in i..Len(k) : (\A m \in i..j : k[m] # "/") /\ (j = Len(k) \/ k[j + 1] = "/")

Segment(k, n) == SubSeq(k, NthOf(SegmentStarts(k), n), SegmentEnd(k, NthOf(SegmentStarts(k), n)))

\* key k has no empty segment before its last separator-free part: no leading
\* and no doubled separator
NoEmptySegment(k) == \A i \in 1..Len(k) : k[i] = "/" => (i > 1 /\ k[i - 1] # "/")

\* C29 as amended: the ancestor folder list of a key holds one pair for every
\* non-empty segment of the key but the last, in their order; the name of a
\* pair is the segment, its key is the key of the pair before (nothing, for
\* the first) followed by the segment and a separator, so that it ends with a
\* separator and its last segment is its name.  The folder keys are prefixes
\* of the key when the key has no empty segment.  A key with at most one
\* non-empty segment, and so a key without a separator, yields the empty list.
C29_OnePairPerSegment ==
  FoldersReturned =>
    LET n == Cardinality(SegmentStarts(call.key))
    IN /\ Len(call.folders) = (IF n = 0 THEN 0 ELSE n - 1)
       /\ \A i \in 1..Len(call.folders) :
            /\ call.folders[i].name = Segment(call.key, i)
            /\ call.folders[i].key =
                 (IF i = 1 THEN EmptyStr ELSE call.folders[i - 1].key)
                   \o Segment(call.key, i) \o <<"/">>
            /\ endsWith(call.folders[i].key, "/")
            /\ LastSegment(call.folders[i].key) = call.folders[i].name
            /\ NoEmptySegment(call.key) => startsWith(call.key, call.folders[i].key)
       /\ (\A i \in 1..Len(call.key) : call.key[i] # "/") => call.folders = <<>>

\* the list of a key with a doubled separator, two folders deep
C29_Witness ==
  /\ FoldersReturned
  /\ call.key = KDoubled
  /\ call.folders = <<[key |-> <<"a", "/">>, name |-> <<"a">>],
                      [key |-> <<"a", "/", "b", "/">>, name |-> <<"b">>]>>

\* a call of the query service returns in this step
QueryReturns == call'.op \in {"search", "recent", "status"} /\ call' # call

\* C30: the query service is read-only.  A step in which
\* getRecentIndexedObjects, searchIndexedObjects or getIndexStatus returns
\* leaves every index entry, its updated_at included, and the scan state as
\* they are, whatever the arguments and whether a run is in flight or not.
C30_QueriesReadOnly ==
  [][QueryReturns => (object_index' = object_index /\ index_state' = index_state)]_vars

\* getRecentIndexedObjects has returned an entry while a run that follows a
\* completed run was in flight
C30_Witness ==
  /\ call.op = "recent"
  /\ Len(call.items) >= 1
  /\ RunInFlight
  /\ DOMAIN index_state # {}

\* invocation r is a refreshIndex that has completed directly after a completed
\* rebuildIndex, and the bucket has not changed since that one started
RefreshAfterRebuild(r) ==
  /\ DoneRefresh(r)
  /\ hist[r].after.kind = "full"
  /\ hist[r].after.clean
  /\ hist[r].quiet

\* C31: a refreshIndex that runs directly after a completed rebuildIndex, with
\* no change of the bucket and no other run in between, is a no-op: it returns
\* added = 0, updated = 0 and removed = 0, writes and deletes no index entry,
\* and changes nothing of the scan state but lastDeltaScan.
C31_RefreshAfterRebuildIsNoOp ==
  \A r \in Runs : RefreshAfterRebuild(r) =>
    /\ run[r].result.added = 0
    /\ run[r].result.updated = 0
    /\ run[r].result.removed = 0
    /\ hist[r].writes = <<>>
    /\ hist[r].deleted = {}
    /\ object_index = hist[r].pre
    /\ getState(index_state).last_full_scan = getState(hist[r].preState).last_full_scan

\* invocation r is a refreshIndex in flight
RefreshInFlight(r) == Active(r) /\ run[r].kind = "delta"

\* C32: while a refreshIndex is in flight the index does not shrink.  In every
\* state of the run up to the end of the enumeration every key that was in
\* the index when the run started is still there and the run has deleted
\* nothing; a step of the run that takes a key out of the index is the one
\* step after the last page, in which the run deletes every key it has not
\* seen and returns.
C32_NoDeletionBeforeTheSweep ==
  /\ [](\A r \in Runs : RefreshInFlight(r) =>
          /\ DOMAIN hist[r].pre \subseteq DOMAIN object_index
          /\ hist[r].deleted = {})
  /\ [][\A r \in Runs :
          (RefreshInFlight(r) /\ ~(DOMAIN object_index \subseteq DOMAIN object_index')) =>
            /\ run[r].pc = "walked"
            /\ run'[r].pc = "done"
            /\ DOMAIN object_index' = DOMAIN object_index \cap run[r].seenKeys]_vars

\* a refreshIndex has walked a full page, the last; the index still holds a
\* key from before the run that is no longer in the bucket and that the sweep
\* is about to delete
C32_Witness ==
  \E r \in Runs :
    /\ RefreshInFlight(r)
    /\ run[r].pc = "walked"
    /\ Len(hist[r].processed) = PageSize
    /\ \E k \in DOMAIN hist[r].pre :
         /\ k \notin run[r].seenKeys
         /\ remote[k] = "none"
         /\ Has(object_index, k)

\* invocation r has completed, it has overlapped with another run, and no run
\* is in flight any more
OverlapCompleted(r) == DoneRun(r) /\ ~hist[r].alone /\ ~RunInFlight

RowCount(idx) == Cardinality(DOMAIN idx)

\* C34: the counts of a completed refreshIndex that no other run overlapped
\* add up: the index holds as many entries after the run as before it plus
\* added minus removed, and the returned files plus folders is the number of
\* entries after the run.
C34_CountConservation ==
  \A r \in Runs : (DoneRefresh(r) /\ hist[r].alone) =>
    /\ RowCount(object_index) =
         RowCount(hist[r].pre) + run[r].result.added - run[r].result.removed
    /\ run[r].result.files + run[r].result.folders = RowCount(object_index)

\* a refresh has completed that added rows, rewrote a row and removed rows
C34_Witness ==
  \E r \in Runs :
    /\ DoneRefresh(r)
    /\ hist[r].alone
    /\ run[r].result.added >= 2
    /\ run[r].result.updated >= 1
    /\ run[r].result.removed >= 1
    /\ run[r].result.folders >= 1

\* C35: a completed refreshIndex that no other run overlapped leaves no
\* orphan folder: every folder-kind entry of the index is an ancestor folder
\* of an object the run was handed, so a folder whose descendants are all gone
\* from the bucket has been removed by the sweep.
C35_NoOrphanFolder ==
  \A r \in Runs : (DoneRefresh(r) /\ hist[r].alone) =>
    \A k \in DOMAIN object_index : object_index[k].type = "folder" =>
      \E K \in ProcessedKeys(r) : k \in AncestorFolders(K)

\* a refresh has swept a folder whose last descendant had left the bucket, and
\* has kept another folder
C35_Witness ==
  \E r \in Runs :
    /\ DoneRefresh(r)
    /\ hist[r].alone
    /\ \E k \in hist[r].deleted :
         /\ hist[r].pre[k].type = "folder"
         /\ \A K \in ObjectKeys(remote) : k \notin AncestorFolders(K)
    /\ \E k \in DOMAIN object_index : object_index[k].type = "folder"

\* the two scan times as getState returns them
ScanFields == {"last_full_scan", "last_delta_scan"}

\* the instant of a scan time that is set
Instant(t) == t[1]

\* C36: whatever runs of rebuildIndex and refreshIndex have completed or
\* failed, the time of the last full scan is set only if the time of the last
\* delta scan is set, the last delta scan is not earlier than the last full
\* scan, and no step unsets a scan time or moves it backwards.
C36_ScanTimesOrdered ==
  /\ [](LET st == getState(index_state)
        IN st.last_full_scan # NULL =>
             /\ st.last_delta_scan # NULL
             /\ Instant(st.last_delta_scan) >= Instant(st.last_full_scan))
  /\ [][\A f \in ScanFields :
          getState(index_state)[f] # NULL =>
            /\ getState(index_state')[f] # NULL
            /\ Instant(getState(index_state')[f]) >= Instant(getState(index_state)[f])]_vars

\* a rebuild, a failed run and a later refresh have left a delta scan time
\* later than the full scan time
C36_Witness ==
  \E r \in Runs :
    /\ DoneRefresh(r)
    /\ hist[r].after.kind = "failed"
    /\ getState(index_state).last_full_scan # NULL
    /\ getState(hist[r].preState).last_delta_scan = getState(index_state).last_full_scan
    /\ Instant(getState(index_state).last_delta_scan) >
         Instant(getState(index_state).last_full_scan)

\* the keys of the file-kind entries of the table idx
FileEntries(idx) == {k \in DOMAIN idx : idx[k].type = "file"}

StatusReturned == call # NoCall /\ call.op = "status"

\* C37: the objectCount that getIndexStatus returns is the number of
\* file-kind entries of the index at the call, folder entries not counted; a
\* call directly after a completed rebuildIndex returns the indexed of that
\* run, and a call directly after a completed refreshIndex returns its files.
C37_ObjectCountIsFileCount ==
  /\ [](StatusReturned =>
          call.status.objectCount = Cardinality(FileEntries(object_index)))
  /\ [][getIndexStatusReturns =>
          \A r \in Runs :
            /\ DoneRebuild(r) => call'.status.objectCount = run[r].result.indexed
            /\ DoneRefresh(r) => call'.status.objectCount = run[r].result.files]_vars

\* getIndexStatus has returned after a completed refreshIndex, over an index
\* that holds file entries and folder entries
C37_Witness ==
  /\ StatusReturned
  /\ ~RunInFlight
  /\ prev.kind = "delta"
  /\ call.status.objectCount >= 1
  /\ call.status.objectCount < Cardinality(DOMAIN object_index)
  /\ call.status.lastFullScan # NULL

====
